---- MODULE Spec2Model ----
(***************************************************************************)
(* Holdings-snapshot diff (active_etf_tracker.compare_holdings and the     *)
(* summary extraction it calls) and the date-keyed ranking history store   *)
(* (ranking_tracker).                                                      *)
(*                                                                         *)
(* Conventions.                                                            *)
(*  - A spreadsheet cell is the sequence of the lexemes of its str() text: *)
(*    one-character strings for digits and punctuation, one string for a   *)
(*    whole keyword.  The blank (NaN) cell of a holdings column is "nan",  *)
(*    its str().  Keywords of the source are written in pinyin:            *)
(*      XianJin = cash, QuanZhong = weight, LiuTongZaiWaiDanWeiShu = units *)
(*      outstanding, MeiDanWeiJingZhi = NAV per unit, JiJinZiChan = fund   *)
(*      assets, GuPiaoDaiHao = stock code, GuPiaoMingCheng = stock name,   *)
(*      GuPiao = stock, GuShu = share count.                               *)
(*  - Optional[x] is <<>> for None and <<v>> for a value v.                *)
(*  - Share counts and prices are integers; weights and the scalars read   *)
(*    from the raw grid are thousandths (3.5 is 3500); change_pct is an    *)
(*    exact fraction [n, d] in lowest terms with d > 0.                    *)
(*  - Columns the diff never reads for a decision (the instrument name)    *)
(*    are left out of the rows.                                            *)
(***************************************************************************)
EXTENDS Integers, Sequences, FiniteSets, TLC

VARIABLES
    df_new,        \* holdings table of the newer disclosure
    df_old,        \* holdings table of the older disclosure
    df_raw_new,    \* raw cell grid of the newer disclosure
    df_raw_old,    \* raw cell grid of the older disclosure
    call,          \* the arguments compare_holdings was last called with
    result,        \* what that call returned (or that it raised)
    file,          \* ranking_history.json on disk
    today,         \* the calendar day datetime.now() falls on
    last,          \* the last store operation, its outcome and return value
    latest,        \* per date, the content of the most recent upsert for it
    arg,           \* the argument a parser or a trend analysis is called with
    ret            \* what that call returned

vars == <<df_new, df_old, df_raw_new, df_raw_old, call, result, file, today, last, latest,
          arg, ret>>

diffVars == <<df_new, df_old, df_raw_new, df_raw_old, call, result>>
storeVars == <<file, today, last, latest>>
pureVars == <<arg, ret>>

\* ------------------------------------------------------------------ bounds

\* rows of the two holdings tables together
MaxRows == 2

\* ------------------------------------------------------------- optionals

None == <<>>
Some(v) == <<v>>
IsNone(o) == o = <<>>
Val(o) == o[1]

Abs(x) == IF x < 0 THEN 0 - x ELSE x

\* Python truthiness of an Optional[number]: None and 0 are both falsy
Truthy(o) == o # <<>> /\ o[1] # 0

\* ------------------------------------------------------------ text cells

Digits == {"0", "1", "2", "3", "4", "5", "6", "7", "8", "9"}

DigitVal(c) ==
    CASE c = "0" -> 0 [] c = "1" -> 1 [] c = "2" -> 2 [] c = "3" -> 3
      [] c = "4" -> 4 [] c = "5" -> 5 [] c = "6" -> 6 [] c = "7" -> 7
      [] c = "8" -> 8 [] c = "9" -> 9

IsDigits(s) == Len(s) > 0 /\ \A i \in 1..Len(s) : s[i] \in Digits

RECURSIVE DecVal(_)
DecVal(s) == IF s = <<>> THEN 0 ELSE DecVal(SubSeq(s, 1, Len(s) - 1)) * 10 + DigitVal(s[Len(s)])

\* the first three fraction digits as thousandths
FracMilli(s) ==
    (IF Len(s) >= 1 THEN DigitVal(s[1]) * 100 ELSE 0)
  + (IF Len(s) >= 2 THEN DigitVal(s[2]) * 10 ELSE 0)
  + (IF Len(s) >= 3 THEN DigitVal(s[3]) ELSE 0)

Remove(s, chars) == SelectSeq(s, LAMBDA c : c \notin chars)

RECURSIVE LStrip(_)
LStrip(s) == IF s # <<>> /\ s[1] = " " THEN LStrip(Tail(s)) ELSE s

RECURSIVE RStrip(_)
RStrip(s) == IF s # <<>> /\ s[Len(s)] = " " THEN RStrip(SubSeq(s, 1, Len(s) - 1)) ELSE s

\* str.strip()
Strip(s) == RStrip(LStrip(s))

\* position of the first "." of s, 0 when there is none
RECURSIVE DotAt(_, _)
DotAt(s, i) == IF i > Len(s) THEN 0 ELSE IF s[i] = "." THEN i ELSE DotAt(s, i + 1)

\* An unsigned decimal literal, digits or digits.digits, in thousandths; None otherwise
UnsignedMilli(s) ==
    LET d == DotAt(s, 1) IN
    IF d = 0
    THEN IF IsDigits(s) THEN Some(DecVal(s) * 1000) ELSE None
    ELSE LET ip == SubSeq(s, 1, d - 1)
             fp == SubSeq(s, d + 1, Len(s))
         IN IF IsDigits(ip) /\ IsDigits(fp)
            THEN Some(DecVal(ip) * 1000 + FracMilli(fp))
            ELSE None

\* float(s) / pd.to_numeric(s) of a text: [-]digits[.digits], in thousandths;
\* None stands for the ValueError of float() and for the NaN of errors='coerce'
ParseDecimal(s) ==
    IF s # <<>> /\ s[1] = "-"
    THEN LET u == UnsignedMilli(Tail(s)) IN IF IsNone(u) THEN None ELSE Some(0 - Val(u))
    ELSE UnsignedMilli(s)

\* float -> int of astype(int) and int(): truncation toward zero
TruncMilli(m) == IF m >= 0 THEN m \div 1000 ELSE 0 - ((0 - m) \div 1000)

\* ------------------------------------------------------------- raw cell grid

\* the source keywords a lexeme contains as a substring
KeywordsIn(lex) ==
    CASE lex = "LiuTongZaiWaiDanWeiShu" -> {"LiuTongZaiWaiDanWeiShu", "LiuTongZaiWai", "ZaiWaiDanWei", "DanWei"}
      [] lex = "ShouYiQuanDanWeiShu" -> {"ShouYiQuanDanWeiShu", "DanWei"}
      [] lex = "XianJin" -> {"XianJin"}
      [] lex = "QuanZhong" -> {"QuanZhong"}
      [] lex = "ChiGuQuanZhong" -> {"QuanZhong", "Gu"}
      [] lex = "MeiDanWeiJingZhi" -> {"MeiDanWeiJingZhi", "DanWeiJingZhi", "DanWei"}
      [] lex = "JiJinZiChan" -> {"JiJinZiChan"}
      [] lex = "GuPiaoDaiHao" -> {"GuPiao", "GuPiaoDaiHao", "Gu"}
      [] lex = "GuPiaoMingCheng" -> {"GuPiao", "GuPiaoMingCheng", "Gu"}
      [] lex = "GuPiao" -> {"GuPiao", "Gu"}
      [] lex = "GuShu" -> {"GuShu", "Gu"}
      [] lex = "%" -> {"%"}
      [] lex = "NAV" -> {"NAV"}
      [] lex = "nav" -> {"nav"}
      [] lex = "cash" -> {"cash"}
      [] lex = "weight" -> {"weight"}
      [] OTHER -> {}

\* str.lower()
Lower(cell) ==
    [i \in 1..Len(cell) |->
        CASE cell[i] = "NAV" -> "nav" [] cell[i] = "Cash" -> "cash"
          [] cell[i] = "Weight" -> "weight" [] OTHER -> cell[i]]

\* any(k in cell_str for k in keywords)
HasKeyword(cell, keywords) == \E i \in 1..Len(cell) : KeywordsIn(cell[i]) \cap keywords # {}

\* the part of t after its last colon
RECURSIVE AfterColon(_)
AfterColon(t) ==
    IF \E i \in 1..Len(t) : t[i] = ":"
    THEN AfterColon(SubSeq(t, (CHOOSE i \in 1..Len(t) : t[i] = ":") + 1, Len(t)))
    ELSE t

\* the longest run of digits of t that starts at i
RECURSIVE DigitRun(_, _)
DigitRun(t, i) ==
    IF i <= Len(t) /\ t[i] \in Digits THEN <<t[i]>> \o DigitRun(t, i + 1) ELSE <<>>

\* re.search(r'-?\d+(\.\d+)?', t): the leftmost match, as text; <<>> when there is none
RECURSIVE FirstNumber(_, _)
FirstNumber(t, i) ==
    IF i > Len(t) THEN <<>>
    ELSE LET signed == t[i] = "-" /\ i < Len(t) /\ t[i + 1] \in Digits
             start == IF signed THEN i + 1 ELSE i
         IN IF signed \/ t[i] \in Digits
            THEN LET ip == DigitRun(t, start)
                     dot == start + Len(ip)
                     fp == IF dot <= Len(t) /\ t[dot] = "." THEN DigitRun(t, dot + 1) ELSE <<>>
                 IN (IF signed THEN <<"-">> ELSE <<>>) \o ip
                    \o (IF fp # <<>> THEN <<".">> \o fp ELSE <<>>)
            ELSE FirstNumber(t, i + 1)

UnitWords == {"Yuan", "TaiBi", "XinTaiBi", "Fen", "DanWei", "Gu"}

\* if t.endswith('%'): t = t[:-1]
DropPercent(t) == IF t # <<>> /\ t[Len(t)] = "%" THEN SubSeq(t, 1, Len(t) - 1) ELSE t

\* float(m.group(0)) of the match m, None when nothing matched
MatchValue(m) == IF m = <<>> THEN None ELSE ParseDecimal(m)

\* try_parse_number from its stripped text t on
NumberOfText(t) ==
    IF t = <<>> \/ t = <<"n", "a", "n">> THEN None
    ELSE MatchValue(FirstNumber(
            DropPercent(Remove(AfterColon(Remove(t, {",", " "})), UnitWords)), 1))

try_parse_number(s) == NumberOfText(Strip(s))

\* the value v of a cell as a percentage: as it is under a % sign or above 1, else times 100
ScalePercent(v, has_pct) ==
    IF IsNone(v) THEN None
    ELSE IF has_pct THEN v
    ELSE IF Abs(Val(v)) <= 1000 THEN Some(Val(v) * 100)
    ELSE v

\* parse_percent_cell from its stripped text s on
PercentOfText(s) ==
    IF s = <<>> \/ s = <<"n", "a", "n">> THEN None
    ELSE ScalePercent(try_parse_number(s), \E i \in 1..Len(s) : s[i] = "%")

parse_percent_cell(cell) == PercentOfText(Strip(cell))

NRows(g) == Len(g)
NCols(g) == IF g = <<>> THEN 0 ELSE Len(g[1])

Min(a, b) == IF a <= b THEN a ELSE b

\* the least member of a set of numbers
Least(S) == CHOOSE i \in S : \A e \in S : i <= e

\* Neighbours with the cell below tried before the cells to the right
Neighbours_BelowFirst(g, i, j) ==
    <<g[i][j]>> \o (IF i + 1 <= NRows(g) THEN <<g[i + 1][j]>> ELSE <<>>)
                \o SubSeq(g[i], j + 1, Min(j + 3, NCols(g)))

\* the cells read at a keyword cell (i, j), in the order they are tried: the cell
\* itself, the cells up to three to its right, the cell below
Neighbours(g, i, j) ==
    <<g[i][j]>> \o SubSeq(g[i], j + 1, Min(j + 3, NCols(g)))
                \o (IF i + 1 <= NRows(g) THEN <<g[i + 1][j]>> ELSE <<>>)

\* the first value of a list of optional values, None when there is none
FirstSome(values) ==
    IF \A k \in 1..Len(values) : IsNone(values[k]) THEN None
    ELSE values[CHOOSE k \in 1..Len(values) :
                    ~IsNone(values[k]) /\ \A e \in 1..(k - 1) : IsNone(values[e])]

\* the first of the cells that try_parse_number reads as a number
FirstNumberAmong(cells) == FirstSome([k \in 1..Len(cells) |-> try_parse_number(cells[k])])

\* the value read at a keyword cell (i, j)
ValueAt(g, i, j) == FirstNumberAmong(Neighbours(g, i, j))

\* v when it is a value, else rest
OrElse(v, rest) == IF IsNone(v) THEN rest ELSE v

\* the scan of extract_value_by_keyword from cell number k, row by row
RECURSIVE ScanFrom(_, _, _)
ScanFrom(g, keyword_list, k) ==
    IF k > NRows(g) * NCols(g) THEN None
    ELSE LET i == ((k - 1) \div NCols(g)) + 1
             j == ((k - 1) % NCols(g)) + 1
         IN OrElse(IF HasKeyword(g[i][j], keyword_list) THEN ValueAt(g, i, j) ELSE None,
                   ScanFrom(g, keyword_list, k + 1))

extract_value_by_keyword(g, keyword_list) == ScanFrom(g, keyword_list, 1)

HeaderScanRows == 80
BelowScanRows == 60

\* the first row within the scanned rows that is among keyword_rows and holds a label
\* cell, with the first such cell's column; <<>> when there is none.  keyword_rows are
\* the rows whose joined text holds a keyword, labels the <<row, column>> of label cells
FindHeader(g, keyword_rows, labels) ==
    LET rows == {i \in 1..Min(NRows(g), HeaderScanRows) :
                    i \in keyword_rows /\ \E j \in 1..NCols(g) : <<i, j>> \in labels}
    IN IF rows = {} THEN <<>>
       ELSE LET i == CHOOSE i \in rows : \A e \in rows : i <= e
                cols == {j \in 1..NCols(g) : <<i, j>> \in labels}
            IN <<i, CHOOSE j \in cols : \A e \in cols : j <= e>>

\* the value of the first row below the header row hr, within the scanned rows, that is
\* among keyword_rows and whose cell in the header's column reads as a value; column
\* holds what each row's cell in that column reads as
ReadBelow(g, hr, keyword_rows, column) ==
    LET rows == {i \in (hr + 1)..Min(NRows(g), hr - 1 + BelowScanRows) :
                    i \in keyword_rows /\ ~IsNone(column[i])}
    IN IF rows = {} THEN None
       ELSE column[CHOOSE i \in rows : \A e \in rows : i <= e]

\* the rows, and the cells, of a sheet whose stripped text holds one of the keywords
RowsWith(g, keywords) ==
    {i \in 1..NRows(g) : \E j \in 1..NCols(g) : HasKeyword(Strip(g[i][j]), keywords)}
CellsWith(g, keywords) ==
    {c \in (1..NRows(g)) \X (1..NCols(g)) : HasKeyword(Strip(g[c[1]][c[2]]), keywords)}

extract_cash_weight(g) ==
    LET header == FindHeader(g, RowsWith(g, {"QuanZhong", "BiZhong", "weight", "%"}),
                                CellsWith(g, {"QuanZhong", "BiZhong", "weight"}))
        cash_rows == {i \in 1..NRows(g) : \E j \in 1..NCols(g) :
                         HasKeyword(Lower(Strip(g[i][j])), {"XianJin", "cash"})}
    IN IF header = <<>> THEN None
       ELSE ReadBelow(g, header[1], cash_rows,
                      [i \in 1..NRows(g) |-> parse_percent_cell(g[i][header[2]])])

extract_nav_per_unit(g) ==
    LET nav_cells == CellsWith(g, {"MeiDanWeiJingZhi", "DanWeiJingZhi"}) \cup
                     {c \in (1..NRows(g)) \X (1..NCols(g)) : Lower(Strip(g[c[1]][c[2]])) = <<"nav">>}
        header == FindHeader(g, RowsWith(g, {"MeiDanWeiJingZhi", "DanWeiJingZhi", "NAV", "nav"}),
                                nav_cells)
    IN IF header = <<>> THEN None
       ELSE ReadBelow(g, header[1], RowsWith(g, {"JiJinZiChan"}),
                      [i \in 1..NRows(g) |-> try_parse_number(g[i][header[2]])])

\* Delta with a missing older value read as 0
Delta_MissingAsZero(new, old) ==
    IF IsNone(new) THEN None
    ELSE Some(Val(new) - (IF IsNone(old) THEN 0 ELSE Val(old)))

\* (new - old) if new and old else None
Delta(new, old) == IF Truthy(new) /\ Truthy(old) THEN Some(Val(new) - Val(old)) ELSE None

UnitsKeywords == {"LiuTongZaiWaiDanWeiShu", "LiuTongZaiWai", "ZaiWaiDanWei", "ShouYiQuanDanWeiShu"}

\* the four metrics extract_etf_summary reads off one sheet
Metrics(g) ==
    [units |-> extract_value_by_keyword(g, UnitsKeywords),
     cash |-> extract_value_by_keyword(g, {"XianJin"}),
     cash_weight |-> extract_cash_weight(g),
     nav |-> extract_nav_per_unit(g)]

\* the ETFSummary of the metrics of the newer and the older sheet
SummaryOf(new, old) ==
    [units_outstanding |-> new.units,
     units_change |-> Delta(new.units, old.units),
     cash_amount |-> new.cash,
     cash_change |-> Delta(new.cash, old.cash),
     cash_weight |-> new.cash_weight,
     cash_weight_change |-> Delta(new.cash_weight, old.cash_weight),
     nav_per_unit |-> new.nav,
     nav_change |-> Delta(new.nav, old.nav)]

extract_etf_summary(raw_new, raw_old) == SummaryOf(Metrics(raw_new), Metrics(raw_old))

\* ------------------------------------------------------- holdings sheet header

HeaderKeywords == {"GuPiao", "GuPiaoDaiHao", "GuPiaoMingCheng", "GuShu"}

\* all(any(k in c for c in cells) for k in keywords)
IsHeaderRow(row) ==
    \A k \in HeaderKeywords : \E j \in 1..Len(row) : HasKeyword(row[j], {k})

\* find_stock_header_index that asks for the share-count keyword alone
find_stock_header_index_SharesOnly(g) ==
    LET rows == {i \in 1..NRows(g) : \E j \in 1..Len(g[i]) : HasKeyword(g[i][j], {"GuShu"})}
    IN IF rows = {} THEN None ELSE Some(Least(rows) - 1)

\* the 0-based index of the first header row, None when there is none
find_stock_header_index(g) ==
    LET rows == {i \in 1..NRows(g) : IsHeaderRow(g[i])}
    IN IF rows = {} THEN None ELSE Some(Least(rows) - 1)

\* what parse_holdings_excel returns once the header row is looked up: the raw grid and
\* the table below the header row, or the ValueError
ParsedFrom(g, header_idx) ==
    IF IsNone(header_idx) THEN [status |-> "raised", error |-> "ValueError"]
    ELSE [status |-> "returned",
          df_raw |-> g,
          columns |-> g[Val(header_idx) + 1],
          df_holdings |-> SubSeq(g, Val(header_idx) + 2, NRows(g))]

parse_holdings_excel(g) == ParsedFrom(g, find_stock_header_index(g))

\* -------------------------------------------------------- holdings tables

\* str() of a blank (NaN) cell
NaNCell == <<"n", "a", "n">>

\* the instrument-code cells of the inputs: one code that qualifies for a price
\* lookup and one, with a stray blank, that is too short for it
CodeCells == {<<"2", "3", "3", "0">>, <<" ", "5", "0">>}

\* the share-count cells of the inputs: 0, 3, "1,000" and an unparsable text
ShareCells == {<<"0">>, <<"3">>, <<"1", ",", "0", "0", "0">>, <<"n", "/", "a">>}

\* the weight cells of the inputs: "3.5%" and an unparsable text
WeightCells == {<<"3", ".", "5", "%">>, <<"n", "/", "a">>}

\* what get_close_price's sources can answer for a code they are asked about
Quotes == {None, Some(0), Some(25)}

SeqsUpTo(S, n) == UNION {[1..k -> S] : k \in 0..n}

OldRows == [code : CodeCells, shares : ShareCells]
NewRows(has_weight) ==
    [code : CodeCells, shares : ShareCells,
     weight : IF has_weight THEN WeightCells ELSE {<<>>}]

\* a holdings table: its rows in file order, and whether it has the weight column
NewTables(n) ==
    {[has_weight |-> w, rows |-> r] : w \in BOOLEAN, r \in {<<>>}} \cup
    UNION {{[has_weight |-> w, rows |-> r] : r \in SeqsUpTo(NewRows(w), n) \ {<<>>}} : w \in BOOLEAN}
OldTables(n) == {[has_weight |-> FALSE, rows |-> r] : r \in SeqsUpTo(OldRows, n)}

\* ---------------------------------------------------------------- fractions

RECURSIVE GCD(_, _)
GCD(a, b) == IF b = 0 THEN a ELSE GCD(b, a % b)

\* n/d in lowest terms, d > 0
Frac(n, d) == LET g == GCD(Abs(n), d) IN [n |-> n \div g, d |-> d \div g]

FracLess(a, b) == a.n * b.d < b.n * a.d

\* list.sort(key=..., reverse=...) and sort_values(ascending=...): the stable sort of
\* s by its elements' keys, key[i] the optional fraction of s[i], missing keys last
StableSort(s, key, reverse) ==
    LET n == Len(s)
        Less(i, j) == /\ ~IsNone(key[i])
                      /\ \/ IsNone(key[j])
                         \/ IF reverse THEN FracLess(Val(key[j]), Val(key[i]))
                                       ELSE FracLess(Val(key[i]), Val(key[j]))
        before(j, i) == Less(j, i) \/ (~Less(i, j) /\ j < i)
        rank(i) == Cardinality({j \in 1..n : before(j, i)})
    IN [k \in 1..n |-> s[CHOOSE i \in 1..n : rank(i) = k - 1]]

FirstN(s, n) == IF Len(s) <= n THEN s ELSE SubSeq(s, 1, n)

\* ------------------------------------------------------------ compare_holdings

\* df['code'] = df['code'].astype(str).str.strip(), done on the caller's table
NormalizeCodes(df) ==
    [df EXCEPT !.rows = [i \in 1..Len(df.rows) |-> [df.rows[i] EXCEPT !.code = Strip(@)]]]

parse_weight_to_float(x) ==
    ParseDecimal(Remove(DropPercent(Strip(x)), {","}))

\* pd.to_numeric(col.astype(str).str.replace(',', ''), errors='coerce').fillna(0).astype(int)
to_numeric_int(cell) ==
    LET v == ParseDecimal(Remove(cell, {","}))
    IN IF IsNone(v) THEN 0 ELSE TruncMilli(Val(v))

\* int(str(cell).replace(',', '')): None stands for its ValueError
PyInt(cell) ==
    LET t == Remove(cell, {","})
        neg == t # <<>> /\ t[1] = "-"
        u == IF neg THEN Tail(t) ELSE t
    IN IF IsDigits(u) THEN Some(IF neg THEN 0 - DecVal(u) ELSE DecVal(u)) ELSE None

Ord(c) == IF c = " " THEN 0 ELSE IF c \in Digits THEN 1 + DigitVal(c) ELSE 20

RECURSIVE LexLess(_, _)
LexLess(a, b) ==
    IF b = <<>> THEN FALSE
    ELSE IF a = <<>> THEN TRUE
    ELSE IF a[1] = b[1] THEN LexLess(Tail(a), Tail(b))
    ELSE Ord(a[1]) < Ord(b[1])

RECURSIVE SortedKeys(_)
SortedKeys(S) ==
    IF S = {} THEN <<>>
    ELSE LET k == CHOOSE k \in S : \A j \in S : j = k \/ LexLess(k, j)
         IN <<k>> \o SortedKeys(S \ {k})

CodesOf(rows) == {rows[i].code : i \in 1..Len(rows)}
RowsOf(rows, code) == SelectSeq(rows, LAMBDA r : r.code = code)

\* the weight column of df_new_prep
PrepWeight(df, r) == IF df.has_weight THEN parse_weight_to_float(r.weight) ELSE Some(0)

RECURSIVE Cross(_, _, _)
Cross(L, R, df) ==
    IF L = <<>> THEN <<>>
    ELSE [j \in 1..Len(R) |->
             [code |-> L[1].code, shares_old |-> L[1].shares,
              shares_new |-> R[j].shares, weight |-> PrepWeight(df, R[j])]]
         \o Cross(Tail(L), R, df)

\* KeyRows of a concatenation instead of a join: no row is paired
KeyRows_Unpaired(old, new, code) ==
    LET L == RowsOf(old.rows, code)
        R == RowsOf(new.rows, code)
    IN [i \in 1..Len(L) |->
            [code |-> code, shares_old |-> L[i].shares,
             shares_new |-> NaNCell, weight |-> None]]
       \o
       [j \in 1..Len(R) |->
            [code |-> code, shares_old |-> NaNCell,
             shares_new |-> R[j].shares, weight |-> PrepWeight(new, R[j])]]

\* the rows of one join key: matched pairs, or the one side with NaN for the other
KeyRows(old, new, code) ==
    LET L == RowsOf(old.rows, code)
        R == RowsOf(new.rows, code)
    IN IF L # <<>> /\ R # <<>> THEN Cross(L, R, new)
       ELSE IF R = <<>>
       THEN [i \in 1..Len(L) |->
                [code |-> code, shares_old |-> L[i].shares,
                 shares_new |-> NaNCell, weight |-> None]]
       ELSE [j \in 1..Len(R) |->
                [code |-> code, shares_old |-> NaNCell,
                 shares_new |-> R[j].shares, weight |-> PrepWeight(new, R[j])]]

RECURSIVE ConcatKeys(_, _, _)
ConcatKeys(old, new, keys) ==
    IF keys = <<>> THEN <<>>
    ELSE KeyRows(old, new, keys[1]) \o ConcatKeys(old, new, Tail(keys))

\* pd.merge(df_old_prep, df_new_prep, on=code, how='outer'): keys in lexicographic order
OuterMerge(old, new) ==
    ConcatKeys(old, new, SortedKeys(CodesOf(old.rows) \cup CodesOf(new.rows)))

get_close_price(code, quote) ==
    IF code = <<>> \/ Len(code) < 4 \/ ~IsDigits(code) THEN None ELSE quote[code]

\* prices.get(code) for the dict filled when fetch_prices is set
PriceOf(code, fetch_prices, quote) ==
    IF fetch_prices /\ code # <<>> /\ Len(code) >= 4
    THEN get_close_price(code, quote)
    ELSE None

\* ChangePct taken relative to the new share count
ChangePct_OverNew(old_shares, new_shares, change) ==
    IF new_shares > 0 THEN Frac(change * 100, new_shares)
    ELSE IF old_shares > 0 THEN Frac(0 - 100, 1)
    ELSE Frac(0, 1)

ChangePct(old_shares, new_shares, change) ==
    IF old_shares > 0 THEN Frac(change * 100, old_shares)
    ELSE IF new_shares > 0 THEN Frac(100, 1)
    ELSE Frac(0, 1)

\* ChangeType with the prior-share test of EXIT not strict
ChangeType_ExitFromZero(old_shares, new_shares, change) ==
    IF old_shares = 0 /\ new_shares > 0 THEN "NEW"
    ELSE IF old_shares >= 0 /\ new_shares = 0 THEN "EXIT"
    ELSE IF change > 0 THEN "INCREASE"
    ELSE IF change < 0 THEN "DECREASE"
    ELSE "UNCHANGED"

ChangeType(old_shares, new_shares, change) ==
    IF old_shares = 0 /\ new_shares > 0 THEN "NEW"
    ELSE IF old_shares > 0 /\ new_shares = 0 THEN "EXIT"
    ELSE IF change > 0 THEN "INCREASE"
    ELSE IF change < 0 THEN "DECREASE"
    ELSE "UNCHANGED"

ValueChange(change, price) == IF Truthy(price) THEN Some(change * Val(price)) ELSE None

\* AppendedTo with the EXIT test as an `if` of its own after the DECREASE branch
AppendedTo_ExitTwice(h) ==
    (IF h.change_type = "NEW" THEN {"new_positions"}
     ELSE IF h.change_type = "INCREASE" THEN {"increased"}
     ELSE IF h.change_type = "DECREASE" \/ h.shares_change < 0 THEN {"decreased"}
     ELSE {})
    \cup
    (IF h.change_type = "EXIT" THEN {"exited"}
     ELSE IF h.change_type = "UNCHANGED" THEN {"unchanged"}
     ELSE {})

\* the lists a HoldingChange is appended to besides all_holdings
AppendedTo(h) ==
    IF h.change_type = "NEW" THEN {"new_positions"}
    ELSE IF h.change_type = "INCREASE" THEN {"increased"}
    ELSE IF h.change_type = "DECREASE" THEN {"decreased"}
    ELSE IF h.change_type = "EXIT" THEN {"exited"}
    ELSE {"unchanged"}

\* one iteration of the loop over merged.iterrows()
\* the HoldingChange of one merged row, from its coerced share counts and its price
HoldingChangeOf(code, weight, old_shares, new_shares, price) ==
    LET change == new_shares - old_shares
    IN [code |-> code,
        weight |-> IF IsNone(weight) THEN 0 ELSE Val(weight),
        shares_old |-> old_shares,
        shares_new |-> new_shares,
        shares_change |-> change,
        change_pct |-> ChangePct(old_shares, new_shares, change),
        change_type |-> ChangeType(old_shares, new_shares, change),
        value_change |-> ValueChange(change, price),
        price |-> price]

MakeHoldingChange(row, fetch_prices, quote) ==
    HoldingChangeOf(row.code, row.weight,
                    to_numeric_int(row.shares_old), to_numeric_int(row.shares_new),
                    PriceOf(row.code, fetch_prices, quote))

GroupList(all, g) == SelectSeq(all, LAMBDA h : g \in AppendedTo(h))

\* df_top.sort_values(weight, ascending=False).head(20): unparsable weights last
TopN == 20
WeightKey(w) == IF IsNone(w) THEN None ELSE Some(Frac(Val(w), 1))
TopRows(df) ==
    FirstN(StableSort(df.rows,
                      [i \in 1..Len(df.rows) |-> WeightKey(parse_weight_to_float(df.rows[i].weight))],
                      TRUE), TopN)

\* w or 0
OrZero(w) == IF Truthy(w) THEN Val(w) ELSE 0

\* the ETFHolding list of the top rows; None when int() raises on a share cell
HoldingsOf(rows, fetch_prices, quote) ==
    IF \E i \in 1..Len(rows) : IsNone(PyInt(rows[i].shares)) THEN None
    ELSE Some([i \in 1..Len(rows) |->
                [code |-> Strip(rows[i].code),
                 shares |-> Val(PyInt(rows[i].shares)),
                 weight |-> OrZero(parse_weight_to_float(rows[i].weight)),
                 price |-> PriceOf(Strip(rows[i].code), fetch_prices, quote)]])

TopHoldings(df, fetch_prices, quote) ==
    IF ~df.has_weight THEN Some(<<>>) ELSE HoldingsOf(TopRows(df), fetch_prices, quote)

\* the codes a price source is ever asked about: stripped, at least 4 long, all digits
PricedCodes == {c \in {Strip(k) : k \in CodeCells} : Len(c) >= 4 /\ IsDigits(c)}
PriceFeeds == [PricedCodes -> Quotes]

Raised == [status |-> "raised"]
NotCalled == [status |-> "none"]

\* SortGroup that sorts every list ascending
SortGroup_Ascending(l, field, reverse) ==
    StableSort(l, [i \in 1..Len(l) |->
                      Some(CASE field = "weight" -> Frac(l[i].weight, 1)
                             [] field = "change_pct" -> l[i].change_pct
                             [] field = "shares_old" -> Frac(l[i].shares_old, 1))],
               FALSE)

\* a result list sorted by one field of its entries
SortGroup(l, field, reverse) ==
    StableSort(l, [i \in 1..Len(l) |->
                      Some(CASE field = "weight" -> Frac(l[i].weight, 1)
                             [] field = "change_pct" -> l[i].change_pct
                             [] field = "shares_old" -> Frac(l[i].shares_old, 1))],
               reverse)

\* the HoldingChange of every merged row, in the merge's order
HoldingChanges(merged, fetch_prices, quote) ==
    [i \in 1..Len(merged) |-> MakeHoldingChange(merged[i], fetch_prices, quote)]

\* what compare_holdings returns, or the exception out of the top_holdings loop
DiffResult(all_holdings, summary, top) ==
    IF IsNone(top) THEN Raised
    ELSE [status |-> "returned",
          new_positions |-> SortGroup(GroupList(all_holdings, "new_positions"), "weight", TRUE),
          increased |-> SortGroup(GroupList(all_holdings, "increased"), "change_pct", TRUE),
          decreased |-> SortGroup(GroupList(all_holdings, "decreased"), "change_pct", FALSE),
          exited |-> SortGroup(GroupList(all_holdings, "exited"), "shares_old", TRUE),
          unchanged |-> GroupList(all_holdings, "unchanged"),
          all_holdings |-> all_holdings,
          summary |-> summary,
          top_holdings |-> Val(top)]

\* compare_holdings once both code columns are stripped
CompareStripped(n, o, raw_new, raw_old, fetch_prices, quote) ==
    DiffResult(HoldingChanges(OuterMerge(o, n), fetch_prices, quote),
               extract_etf_summary(raw_new, raw_old),
               TopHoldings(n, fetch_prices, quote))

compare_holdings(new, old, raw_new, raw_old, fetch_prices, quote) ==
    CompareStripped(NormalizeCodes(new), NormalizeCodes(old), raw_new, raw_old,
                    fetch_prices, quote)

\* ------------------------------------------------------------ the diff's inputs

Label(lex) == <<lex>>

\* a disclosure sheet: units and NAV lines, then the holdings table with its cash row
SummaryGrid(units, nav, cash, cash_weight) ==
    << <<Label("LiuTongZaiWaiDanWeiShu"), units, Label("MeiDanWeiJingZhi")>>,
       <<Label("JiJinZiChan"), <<"9">>, nav>>,
       <<Label("GuPiaoDaiHao"), Label("GuShu"), Label("ChiGuQuanZhong")>>,
       <<Label("XianJin"), cash, cash_weight>> >>

NewValueCells == {<<>>, <<"0">>, <<"4">>}
OldValueCells == {<<>>, <<"0">>, <<"1", ".", "5">>}

NewGrids == {SummaryGrid(u, n, c, w) : u \in NewValueCells, n \in NewValueCells,
                                       c \in NewValueCells, w \in NewValueCells}
\* the older sheet: every value cell alike, or the cash line alone differing
OldGrids == {SummaryGrid(v, v, v, v) : v \in OldValueCells} \cup
            {SummaryGrid(<<>>, <<"1", ".", "5">>, <<>>, v) : v \in OldValueCells}

\* the pair of sheets under which the holdings tables vary: a lone cash line each
FixedNewGrid == << <<Label("XianJin"), <<"4">>>> >>
FixedOldGrid == << <<Label("XianJin"), <<"1", ".", "5">>>> >>

SampleNew == [has_weight |-> TRUE,
              rows |-> << [code |-> <<"2", "3", "3", "0">>, shares |-> <<"3">>,
                           weight |-> <<"3", ".", "5", "%">>] >>]
SampleOld == [has_weight |-> FALSE,
              rows |-> << [code |-> <<"2", "3", "3", "0">>, shares |-> <<"1", ",", "0", "0", "0">>] >>]

\* the share counts of the two-instrument disclosures
PairShares == {<<"0">>, <<"1">>, <<"3">>, <<"4">>}

\* two disclosures of the same two instruments, each share count varying; the weight
\* is known for one of the two instruments
PairedOld ==
    {[has_weight |-> FALSE,
      rows |-> << [code |-> <<"2", "3", "3", "0">>, shares |-> a],
                  [code |-> <<" ", "5", "0">>, shares |-> b] >>] : a \in PairShares, b \in PairShares}
PairedNew ==
    {[has_weight |-> TRUE,
      rows |-> << [code |-> <<"2", "3", "3", "0">>, shares |-> a, weight |-> w[1]],
                  [code |-> <<" ", "5", "0">>, shares |-> b, weight |-> w[2]] >>] :
        a \in PairShares, b \in PairShares,
        w \in {<<<<"3", ".", "5", "%">>, <<"n", "/", "a">>>>, <<<<"n", "/", "a">>, <<"3", ".", "5", "%">>>>}}

\* ============================================================ ranking history

\* the days the clock is seen on
ClockDays == {0, 45, 135}

RetentionDays == 90

\* rows of the ranking table handed to an upsert
MaxRankRows == 1

\* the (code, rank) cells of a ranking row; "" and 0 are what row.get falls back to
RankCodes == {"", "2330"}
RankValues == {0, 1, 2}
RankingTables == SeqsUpTo([code : RankCodes, rank : RankValues], MaxRankRows)

\* the rankings dict built by the loop over df_ranking.iterrows()
RECURSIVE BuildRankings(_)
BuildRankings(df) ==
    IF df = <<>> THEN <<>>
    ELSE LET before == BuildRankings(SubSeq(df, 1, Len(df) - 1))
             row == df[Len(df)]
         IN IF row.code # "" /\ row.rank # 0
            THEN [c \in (DOMAIN before) \cup {row.code} |->
                     IF c = row.code THEN row.rank ELSE before[c]]
            ELSE before

\* the file: absent, holding a JSON list, or holding text json.load rejects
AbsentFile == [dir |-> FALSE, state |-> "absent", hist |-> <<>>]

WriteOutcomes == {"ok", "open_fails", "dump_fails"}

\* ensure_data_dir: TRUE when the directory exists afterwards, FALSE when makedirs raises
ensure_data_dir(f, mkdir_ok) == f.dir \/ mkdir_ok

\* load_ranking_history once the directory is there: any failure of the read is an
\* empty history
load_ranking_history(f, read_ok) ==
    IF f.state = "absent" THEN <<>>
    ELSE IF f.state = "corrupt" \/ ~read_ok THEN <<>>
    ELSE f.hist

\* the file after save_ranking_history(history), which returns normally in each case
save_ranking_history(f, history, write) ==
    CASE write = "ok" -> [dir |-> TRUE, state |-> "ok", hist |-> history]
      [] write = "open_fails" -> [f EXCEPT !.dir = TRUE]
      [] write = "dump_fails" -> [dir |-> TRUE, state |-> "corrupt", hist |-> <<>>]

\* DropToday that leaves the day's earlier snapshot in place
DropToday_Keep(history, day) == history

\* history = [s for s in history if s.date != today], done when today has a snapshot
DropToday(history, day) ==
    IF \E i \in 1..Len(history) : history[i].date = day
    THEN SelectSeq(history, LAMBDA s : s.date # day)
    ELSE history

\* InsertSnapshot that appends
InsertSnapshot_Append(history, snapshot) == Append(history, snapshot)

\* history.insert(0, current_snapshot)
InsertSnapshot(history, snapshot) == <<snapshot>> \o history

\* KeepRecent with the cutoff day itself dropped
KeepRecent_Strict(history, day) == SelectSeq(history, LAMBDA s : s.date > day - RetentionDays)

\* history = [s for s in history if s.date >= cutoff_date]
KeepRecent(history, day) == SelectSeq(history, LAMBDA s : s.date >= day - RetentionDays)

\* UpdatedHistory that leaves a day's earlier snapshot as it is
UpdatedHistory_KeepExisting(history, snapshot) ==
    IF \E i \in 1..Len(history) : history[i].date = snapshot.date
    THEN KeepRecent(history, snapshot.date)
    ELSE KeepRecent(InsertSnapshot(history, snapshot), snapshot.date)

\* the history update_ranking_snapshot passes to save_ranking_history
UpdatedHistory(history, snapshot) ==
    KeepRecent(InsertSnapshot(DropToday(history, snapshot.date), snapshot), snapshot.date)

NoOp == [op |-> "none"]

\* how the read of the history file inside load_ranking_history went
ReadOutcome(f, read_ok) ==
    IF f.state = "absent" THEN "no_file"
    ELSE IF f.state = "corrupt" \/ ~read_ok THEN "fails"
    ELSE "ok"

\* update_ranking_snapshot(df_ranking), with what the file system does to it
Upsert(df, mkdir_ok, read_ok, write) ==
    LET snapshot == [date |-> today, rankings |-> BuildRankings(df)]
        reingest == IF IsNone(latest[today]) THEN "first"
                    ELSE IF latest[today] = Some(snapshot.rankings) THEN "same"
                    ELSE "changed"
    IN /\ latest' = [latest EXCEPT ![today] = Some(snapshot.rankings)]
       /\ IF ~ensure_data_dir(file, mkdir_ok)
          THEN /\ file' = file
               /\ last' = [op |-> "upsert", date |-> today, content |-> snapshot.rankings,
                           reingest |-> reingest, read |-> "not_reached",
                           write |-> "not_reached", raised |-> TRUE]
          ELSE LET history == load_ranking_history(file, read_ok)
               IN /\ file' = save_ranking_history(file, UpdatedHistory(history, snapshot), write)
                  /\ last' = [op |-> "upsert", date |-> today, content |-> snapshot.rankings,
                              reingest |-> reingest, read |-> ReadOutcome(file, read_ok),
                              write |-> write, raised |-> FALSE]
       /\ UNCHANGED today
       /\ UNCHANGED diffVars
       /\ UNCHANGED pureVars

\* a caller's load_ranking_history()
Load(mkdir_ok, read_ok) ==
    /\ IF ~ensure_data_dir(file, mkdir_ok)
       THEN /\ file' = file
            /\ last' = [op |-> "load", date |-> today, raised |-> TRUE, ret |-> <<>>]
       ELSE /\ file' = [file EXCEPT !.dir = TRUE]
            /\ last' = [op |-> "load", date |-> today, raised |-> FALSE,
                        ret |-> load_ranking_history(file, read_ok)]
    /\ UNCHANGED <<today, latest>>
    /\ UNCHANGED diffVars
    /\ UNCHANGED pureVars

\* the calendar moves on
Tick ==
    /\ \E d \in ClockDays : d > today /\ today' = d
    /\ UNCHANGED <<file, last, latest>>
    /\ UNCHANGED diffVars
    /\ UNCHANGED pureVars

\* ------------------------------------------------- trend analyses (etf_analytics)

\* Weights and cash levels are percentages in thousandths (3.5% is 3500).  A date is a
\* day number.  historical_data is [dates, holdings, summaries]: the dates ascending,
\* and per date the HoldingRecord list and the CashLevelRecord.  Signal and conviction
\* texts are written in pinyin: GaoXinXinJiaMa = high-conviction add, ChiXuKanHao =
\* continued conviction, XinXinXiaJiang = conviction drop, XiaoFuJianMa = trim,
\* WeiChi = hold, XinJinChang = new entry, YiChuQing = fully exited; Gao / Zhong / Di =
\* high / medium / low.

\* dates of the history, and holdings of one disclosure
MaxDates == 3
MaxHoldings == 2

\* the k-th smallest member of a set of numbers
KthSmallest(S, k) == CHOOSE i \in S : Cardinality({j \in S : j < i}) = k - 1

\* analyze_cash_levels: records = [summaries[d] for d in dates if summaries.get(d)]
CashRecords(hd) == [i \in 1..Len(hd.dates) |-> hd.summaries[hd.dates[i]]]

RECURSIVE SumCash(_)
SumCash(records) ==
    IF records = <<>> THEN 0 ELSE records[1].cash_weight + SumCash(Tail(records))

\* CashTrend with a difference of exactly one point counted as a move
CashTrend_Inclusive(recent_cash, prev_cash) ==
    IF recent_cash >= prev_cash + 1000 THEN "increasing"
    ELSE IF recent_cash <= prev_cash - 1000 THEN "decreasing"
    ELSE "stable"

\* the trend of the latest level against the one before
CashTrend(recent_cash, prev_cash) ==
    IF recent_cash > prev_cash + 1000 THEN "increasing"
    ELSE IF recent_cash < prev_cash - 1000 THEN "decreasing"
    ELSE "stable"

\* CashAlert that tests the jump over the average before the near-zero level
CashAlert_JumpFirst(recent_cash, total, n) ==
    IF recent_cash > 5000 THEN Some([level |-> "warning", about |-> "high"])
    ELSE IF 2 * n * recent_cash > 3 * total THEN Some([level |-> "warning", about |-> "jump"])
    ELSE IF recent_cash < 1000 THEN Some([level |-> "info", about |-> "low"])
    ELSE None

\* the alert on the latest level; total / n is the average, so
\* recent_cash > avg_cash * 1.5 is 2 * n * recent_cash > 3 * total
CashAlert(recent_cash, total, n) ==
    IF recent_cash > 5000 THEN Some([level |-> "warning", about |-> "high"])
    ELSE IF recent_cash < 1000 THEN Some([level |-> "info", about |-> "low"])
    ELSE IF 2 * n * recent_cash > 3 * total THEN Some([level |-> "warning", about |-> "jump"])
    ELSE None

\* analyze_cash_levels on its list of records
CashLevelsOf(records) ==
    IF Len(records) < 2
    THEN [records |-> records, trend |-> "unknown", alert |-> None]
    ELSE [records |-> records,
          trend |-> CashTrend(records[Len(records)].cash_weight,
                              records[Len(records) - 1].cash_weight),
          current |-> records[Len(records)].cash_weight,
          previous |-> records[Len(records) - 1].cash_weight,
          average |-> Frac(SumCash(records), Len(records)),
          alert |-> CashAlert(records[Len(records)].cash_weight, SumCash(records), Len(records))]

analyze_cash_levels(hd) ==
    IF hd.dates = <<>> THEN [records |-> <<>>, trend |-> "unknown", alert |-> None]
    ELSE CashLevelsOf(CashRecords(hd))

\* every HoldingRecord of the history, date by date in list order
RECURSIVE AllRecords(_, _)
AllRecords(hd, i) ==
    IF i > Len(hd.dates) THEN <<>>
    ELSE hd.holdings[hd.dates[i]] \o AllRecords(hd, i + 1)

\* the codes of a list of records in the order a dict first sees them
KeysInOrder(records) ==
    LET firsts == {i \in 1..Len(records) : \A j \in 1..(i - 1) : records[j].code # records[i].code}
    IN [k \in 1..Cardinality(firsts) |-> records[KthSmallest(firsts, k)].code]

\* WeightTrend with a threshold of 10% either way
WeightTrend_TenPercent(weights) ==
    IF Len(weights) < 2 THEN "stable"
    ELSE LET recent == weights[Len(weights) - 1] + weights[Len(weights)]
             early == weights[1] + weights[2]
         IN IF 10 * recent > 11 * early THEN "increasing"
            ELSE IF 10 * recent < 9 * early THEN "decreasing"
            ELSE "stable"

\* weight_trend of a stock's weights, oldest first
WeightTrend(weights) ==
    IF Len(weights) < 2 THEN "stable"
    ELSE LET recent == weights[Len(weights) - 1] + weights[Len(weights)]
             early == weights[1] + weights[2]
         IN IF 10 * recent > 12 * early THEN "increasing"
            ELSE IF 10 * recent < 8 * early THEN "decreasing"
            ELSE "stable"

Max(a, b) == IF a >= b THEN a ELSE b

RECURSIVE MaxOf(_)
MaxOf(weights) == IF Len(weights) = 1 THEN weights[1] ELSE Max(weights[1], MaxOf(Tail(weights)))

\* HistoryOf that calls a stock active when it was held on any date
HistoryOf_AlwaysActive(code, records, latest_date) ==
    [code |-> code,
     first_seen |-> records[1].date,
     last_seen |-> records[Len(records)].date,
     n_records |-> Len(records),
     is_active |-> TRUE,
     holding_days |-> records[Len(records)].date - records[1].date,
     weight_trend |-> WeightTrend([i \in 1..Len(records) |-> records[i].weight]),
     max_weight |-> MaxOf([i \in 1..Len(records) |-> records[i].weight]),
     current_weight |-> records[Len(records)].weight]

\* the StockHoldingHistory of one stock's records, sorted by date
HistoryOf(code, records, latest_date) ==
    [code |-> code,
     first_seen |-> records[1].date,
     last_seen |-> records[Len(records)].date,
     n_records |-> Len(records),
     is_active |-> records[Len(records)].date = latest_date,
     holding_days |-> records[Len(records)].date - records[1].date,
     weight_trend |-> WeightTrend([i \in 1..Len(records) |-> records[i].weight]),
     max_weight |-> MaxOf([i \in 1..Len(records) |-> records[i].weight]),
     current_weight |-> records[Len(records)].weight]

\* records.sort(key=lambda x: x.date)
SortByDate(records) ==
    StableSort(records, [i \in 1..Len(records) |-> Some(Frac(records[i].date, 1))], FALSE)

\* stock_history[code]
RecordsOf(all, code) == SelectSeq(all, LAMBDA r : r.code = code)

\* one StockHoldingHistory per code, in the dict's order
HistoriesOf(all, keys, latest_date) ==
    [k \in 1..Len(keys) |-> HistoryOf(keys[k], SortByDate(RecordsOf(all, keys[k])), latest_date)]

\* results.sort(key=lambda x: x.current_weight, reverse=True)
SortByCurrentWeight(results) ==
    StableSort(results, [i \in 1..Len(results) |-> Some(Frac(results[i].current_weight, 1))], TRUE)

analyze_holding_periods(hd) ==
    IF hd.dates = <<>> THEN <<>>
    ELSE SortByCurrentWeight(
            HistoriesOf(AllRecords(hd, 1), KeysInOrder(AllRecords(hd, 1)),
                        hd.dates[Len(hd.dates)]))

\* {h.code: h for h in holdings}.values(): one record per code, placed where the code
\* first occurs and holding the code's last record
DictValues(holdings) ==
    LET keys == KeysInOrder(holdings)
    IN [k \in 1..Len(keys) |->
           holdings[CHOOSE i \in 1..Len(holdings) :
                       /\ holdings[i].code = keys[k]
                       /\ \A j \in (i + 1)..Len(holdings) : holdings[j].code # keys[k]]]

\* sorted(values, key=lambda x: x.weight, reverse=True)
Ranked(values) ==
    StableSort(values, [i \in 1..Len(values) |-> Some(Frac(values[i].weight, 1))], TRUE)

NoRank == 999

\* {h.code: i + 1 for i, h in enumerate(ranked)}.get(code, 999)
RankIn(ranked, code) ==
    IF \E i \in 1..Len(ranked) : ranked[i].code = code
    THEN CHOOSE i \in 1..Len(ranked) : ranked[i].code = code
    ELSE NoRank

\* holdings.get(code)
Lookup(values, code) ==
    IF \E i \in 1..Len(values) : values[i].code = code
    THEN Some(values[CHOOSE i \in 1..Len(values) : values[i].code = code])
    ELSE None

\* HeldLabel with the trim threshold tested before the drop threshold
HeldLabel_TrimFirst(weight_change, current_weight) ==
    IF weight_change > 1000 /\ current_weight > 3000
    THEN [signal |-> "GaoXinXinJiaMa", conviction_level |-> "Gao"]
    ELSE IF weight_change > 500 THEN [signal |-> "ChiXuKanHao", conviction_level |-> "Zhong"]
    ELSE IF weight_change < -300 THEN [signal |-> "XiaoFuJianMa", conviction_level |-> "Zhong"]
    ELSE IF weight_change < -1000 THEN [signal |-> "XinXinXiaJiang", conviction_level |-> "Di"]
    ELSE [signal |-> "WeiChi", conviction_level |-> "Zhong"]

\* signal and conviction of a stock held on both dates
HeldLabel(weight_change, current_weight) ==
    IF weight_change > 1000 /\ current_weight > 3000
    THEN [signal |-> "GaoXinXinJiaMa", conviction_level |-> "Gao"]
    ELSE IF weight_change > 500 THEN [signal |-> "ChiXuKanHao", conviction_level |-> "Zhong"]
    ELSE IF weight_change < -1000 THEN [signal |-> "XinXinXiaJiang", conviction_level |-> "Di"]
    ELSE IF weight_change < -300 THEN [signal |-> "XiaoFuJianMa", conviction_level |-> "Zhong"]
    ELSE [signal |-> "WeiChi", conviction_level |-> "Zhong"]

\* HeldSignal with the rank change taken the other way round
HeldSignal_RankReversed(code, curr, prev, weight_rank, prev_rank) ==
    [code |-> code, current_weight |-> curr.weight, prev_weight |-> prev.weight,
     weight_change |-> curr.weight - prev.weight,
     weight_rank |-> weight_rank, prev_rank |-> prev_rank,
     rank_change |-> weight_rank - prev_rank,
     signal |-> HeldLabel(curr.weight - prev.weight, curr.weight).signal,
     conviction_level |-> HeldLabel(curr.weight - prev.weight, curr.weight).conviction_level]

\* the WeightSignal of a stock held on both dates
HeldSignal(code, curr, prev, weight_rank, prev_rank) ==
    [code |-> code, current_weight |-> curr.weight, prev_weight |-> prev.weight,
     weight_change |-> curr.weight - prev.weight,
     weight_rank |-> weight_rank, prev_rank |-> prev_rank,
     rank_change |-> prev_rank - weight_rank,
     signal |-> HeldLabel(curr.weight - prev.weight, curr.weight).signal,
     conviction_level |-> HeldLabel(curr.weight - prev.weight, curr.weight).conviction_level]

\* the WeightSignal of a stock on the current date only
EntrySignal(code, curr, weight_rank) ==
    [code |-> code, current_weight |-> curr.weight, prev_weight |-> 0,
     weight_change |-> curr.weight,
     weight_rank |-> weight_rank, prev_rank |-> NoRank,
     rank_change |-> NoRank - weight_rank,
     signal |-> "XinJinChang",
     conviction_level |-> IF curr.weight > 2000 THEN "Gao" ELSE "Zhong"]

\* the WeightSignal of a stock on the previous date only
ExitSignal(code, prev, prev_rank) ==
    [code |-> code, current_weight |-> 0, prev_weight |-> prev.weight,
     weight_change |-> 0 - prev.weight,
     weight_rank |-> NoRank, prev_rank |-> prev_rank,
     rank_change |-> 0 - NoRank,
     signal |-> "YiChuQing", conviction_level |-> "Di"]

\* the WeightSignal of one code of all_codes
SignalOf(code, curr, prev, weight_rank, prev_rank) ==
    IF ~IsNone(curr) /\ ~IsNone(prev) THEN HeldSignal(code, Val(curr), Val(prev), weight_rank, prev_rank)
    ELSE IF ~IsNone(curr) THEN EntrySignal(code, Val(curr), weight_rank)
    ELSE ExitSignal(code, Val(prev), prev_rank)

\* the signals in the order the set all_codes is iterated in
SignalsOf(current_holdings, prev_holdings, order) ==
    [k \in 1..Len(order) |->
        SignalOf(order[k], Lookup(current_holdings, order[k]), Lookup(prev_holdings, order[k]),
                 RankIn(Ranked(current_holdings), order[k]),
                 RankIn(Ranked(prev_holdings), order[k]))]

\* the signals sorted by the signed weight_change, greatest first
SortByChange_Signed(signals) ==
    StableSort(signals, [i \in 1..Len(signals) |-> Some(Frac(signals[i].weight_change + 100000, 1))],
               TRUE)

\* signals.sort(key=lambda x: abs(x.weight_change), reverse=True)
SortByChange(signals) ==
    StableSort(signals, [i \in 1..Len(signals) |-> Some(Frac(Abs(signals[i].weight_change), 1))],
               TRUE)

\* all_codes of the two latest dates
AllCodes(hd) ==
    IF Len(hd.dates) < 2 THEN {}
    ELSE {hd.holdings[hd.dates[Len(hd.dates)]][i].code :
              i \in 1..Len(hd.holdings[hd.dates[Len(hd.dates)]])} \cup
         {hd.holdings[hd.dates[Len(hd.dates) - 1]][i].code :
              i \in 1..Len(hd.holdings[hd.dates[Len(hd.dates) - 1]])}

\* the orders a set can be iterated in
Orders(S) == {f \in [1..Cardinality(S) -> S] : \A x \in S : \E i \in 1..Cardinality(S) : f[i] = x}

\* analyze_weight_signals, with the order in which the set all_codes is iterated
analyze_weight_signals(hd, order) ==
    IF Len(hd.dates) < 2 THEN <<>>
    ELSE SortByChange(SignalsOf(DictValues(hd.holdings[hd.dates[Len(hd.dates)]]),
                                DictValues(hd.holdings[hd.dates[Len(hd.dates) - 1]]),
                                order))

\* the histories the analyses are given
TrendCodes == {"2330", "2454"}
PrevWeights == {1000, 2000}
CurWeights == {500, 1000, 2000, 4000}
CashLevels == {0, 800, 900, 1900, 3000, 6200}

DateOf(i) == 10 * i

HoldingLists(date, weights, n) ==
    SeqsUpTo([code : TrendCodes, date : {date}, weight : weights], n)

\* a history of n dates with the given holdings and cash levels per date
History(n, holdings, cash) ==
    [dates |-> [i \in 1..n |-> DateOf(i)],
     holdings |-> [d \in {DateOf(i) : i \in 1..n} |-> holdings[d \div 10]],
     summaries |-> [d \in {DateOf(i) : i \in 1..n} |->
                       [date |-> d, cash_weight |-> cash[d \div 10]]]]

\* the holdings of date i when "2330" is held at the weight w, or not held when w is
\* None; "2454" is held on the first date alone
PositionsOn(i, w) ==
    (IF i = 1 THEN <<[code |-> "2454", date |-> DateOf(1), weight |-> 1000]>> ELSE <<>>)
    \o (IF IsNone(w) THEN <<>> ELSE <<[code |-> "2330", date |-> DateOf(i), weight |-> Val(w)]>>)

\* the cash levels vary under one growing position, or the holdings of the two latest
\* dates vary under one cash level, or one position comes, goes and changes weight
\* from date to date
HistoricalData ==
    {History(0, <<>>, <<>>)}
    \cup UNION {{History(n, [i \in 1..n |-> PositionsOn(i, w[i])], [i \in 1..n |-> 3000]) :
                    w \in [1..n -> {None} \cup {Some(x) : x \in CurWeights}]} : n \in 1..MaxDates}
    \cup UNION {{History(n, [i \in 1..n |-> <<[code |-> "2330", date |-> DateOf(i),
                                               weight |-> 1000 * i]>>], c) :
                    c \in [1..n -> CashLevels]} : n \in 1..MaxDates}
    \cup {History(1, <<cur>>, <<3000>>) : cur \in HoldingLists(DateOf(1), CurWeights, MaxHoldings)}
    \cup {History(2, <<prev, cur>>, <<3000, 3000>>) :
            prev \in HoldingLists(DateOf(1), PrevWeights, 2),
            cur \in HoldingLists(DateOf(2), CurWeights, MaxHoldings)}

\* the disclosures load_historical_data reads, oldest first: per date what
\* extract_cash_weight returned for its sheet, the holdings tables being empty
Disclosures ==
    UNION {[1..n -> {None} \cup {Some(c) : c \in CashLevels}] : n \in 1..MaxDates}

\* summaries_by_date[date_str] = CashLevelRecord(cash_weight=cash_weight or 0, ...)
load_historical_data(cash) ==
    History(Len(cash), [i \in 1..Len(cash) |-> <<>>], [i \in 1..Len(cash) |-> OrZero(cash[i])])

\* generate_analysis_report on the loaded history
ReportOf(hd) ==
    IF hd.dates = <<>> THEN [error |-> "no_history"]
    ELSE [periods_analyzed |-> Len(hd.dates),
          cash_analysis |-> analyze_cash_levels(hd),
          holding_histories |-> analyze_holding_periods(hd),
          weight_signals |-> analyze_weight_signals(hd, <<>>)]

generate_analysis_report(cash) == ReportOf(load_historical_data(cash))

\* ----------------------------------------------------------- parser inputs

MaxSheetRows == 3

\* the cells a weight column holds, as the values pandas reads: a numeral text with an
\* optional sign, thousands separator, fraction and percent sign; a small float, whose
\* str() is in exponent notation; a blank, a NaN or another text
PercentCells ==
         [kind : {"numeral"}, pad : BOOLEAN, neg : BOOLEAN,
          ip : {<<"0">>, <<"1">>, <<"3">>, <<"1", "2">>, <<"1", ",", "2", "0", "0">>},
          fp : {<<>>, <<"5">>, <<"0", "3", "5">>},
          suffix : {<<>>, <<"%">>, <<" ", "%">>}]
    \cup [kind : {"float"}, mantissa : {"1", "5"}, exponent : {5}]
    \cup [kind : {"text"},
          text : {<<>>, <<" ">>, <<"n", "a", "n">>, <<"-">>, <<"%">>, <<"n", "/", "a">>}]

\* str(cell)
CellText(cell) ==
    CASE cell.kind = "numeral" ->
             (IF cell.pad THEN <<" ">> ELSE <<>>) \o (IF cell.neg THEN <<"-">> ELSE <<>>)
             \o cell.ip \o (IF cell.fp = <<>> THEN <<>> ELSE <<".">> \o cell.fp) \o cell.suffix
      [] cell.kind = "float" -> <<cell.mantissa, "e", "-", "0", "5">>
      [] cell.kind = "text" -> cell.text

\* the rows a holdings sheet is made of: the header row, the header labels in another
\* order, a row of two of the labels, a fund information row and a data row
SheetRows ==
    {<<<<"GuPiaoDaiHao">>, <<"GuPiaoMingCheng">>, <<"GuShu">>>>,
     <<<<"GuShu">>, <<"GuPiaoDaiHao">>, <<"GuPiaoMingCheng">>>>,
     <<<<"GuPiaoDaiHao">>, <<"GuShu">>, <<"n", "a", "n">>>>,
     <<<<"JiJinZiChan">>, <<"1", "0", "0">>, <<"n", "a", "n">>>>,
     <<<<"2", "3", "3", "0">>, <<"TSMC">>, <<"1", "0", "0", "0">>>>}

RECURSIVE SheetsOf(_)
SheetsOf(n) ==
    IF n = 0 THEN {<<>>}
    ELSE SheetsOf(n - 1) \cup {Append(g, r) : g \in {h \in SheetsOf(n - 1) : Len(h) = n - 1}, r \in SheetRows}

Sheets == {[kind |-> "sheet", rows |-> g] : g \in SheetsOf(MaxSheetRows)}

\* the text of the number 10 * i + j, which a value cell at (i, j) holds
NumberCell(i, j) == <<IF i = 1 THEN "1" ELSE "2", CASE j = 1 -> "1" [] j = 2 -> "2" [] j = 3 -> "3"
                                                      [] j = 4 -> "4" [] j = 5 -> "5">>

\* two-row, five-column sheets around a cash label at (1, p): the label alone or with
\* its own number, any value cell of row 1 blank or filled; below the label a blank, a
\* number or a second label, and right of that a blank or a number
LabelSheets(p) ==
    {<< [j \in 1..5 |-> IF j = p THEN label ELSE IF j \in filled THEN NumberCell(1, j) ELSE NaNCell],
        [j \in 1..5 |-> IF j = p THEN below ELSE IF j = p + 1 THEN beside ELSE NaNCell] >> :
        label \in {<<"XianJin">>, <<"XianJin", ":", "4">>},
        filled \in SUBSET ((1..5) \ {p}),
        below \in {NaNCell, NumberCell(2, p), <<"XianJin">>},
        beside \in {NaNCell, NumberCell(2, p + 1)}}

\* sheets with the label in the first or in the fourth column, or without a label
ValueSheets ==
    {[kind |-> "values", rows |-> g] : g \in LabelSheets(1) \cup LabelSheets(4)}
    \cup {[kind |-> "values",
           rows |-> << [j \in 1..5 |-> IF j \in filled THEN NumberCell(1, j) ELSE NaNCell],
                       [j \in 1..5 |-> NaNCell] >>] : filled \in SUBSET (1..5)}

\* the rows of a sheet with a weight column: a header with the weight label in the
\* second or in the first column, a holding with a percentage, a cash line with a
\* percentage, with a fraction or with an unreadable weight, and a blank row
WeightRows ==
    {<<<<"GuPiaoDaiHao">>, <<"ChiGuQuanZhong">>>>,
     <<<<"QuanZhong">>, NaNCell>>,
     <<<<"2", "3", "3", "0">>, <<"3", ".", "5", "%">>>>,
     <<<<"XianJin">>, <<"4", ".", "5", "%">>>>,
     <<<<"Cash">>, <<"0", ".", "0", "3", "5">>>>,
     <<<<"XianJin">>, <<"n", "/", "a">>>>,
     <<NaNCell, NaNCell>>}

RECURSIVE WeightSheetsOf(_)
WeightSheetsOf(n) ==
    IF n = 0 THEN {<<>>}
    ELSE WeightSheetsOf(n - 1)
         \cup {Append(g, r) : g \in {h \in WeightSheetsOf(n - 1) : Len(h) = n - 1}, r \in WeightRows}

\* a header, as many blank rows as given, and the cash line
TallSheet(blank_rows) ==
    <<<<<<"GuPiaoDaiHao">>, <<"ChiGuQuanZhong">>>>>>
    \o [i \in 1..blank_rows |-> <<NaNCell, NaNCell>>]
    \o <<<<<<"XianJin">>, <<"4", ".", "5", "%">>>>>>

\* short sheets of every make, and sheets whose cash line is the last row that the
\* scan below the header reaches, or the first that it does not
WeightSheets ==
    {[kind |-> "weights", rows |-> g] : g \in WeightSheetsOf(MaxSheetRows)}
    \cup {[kind |-> "weights", rows |-> TallSheet(k)] : k \in {BelowScanRows - 2, BelowScanRows - 1}}

\* ==================================================================== behaviours

NoCall == [kind |-> "none"]

\* no parser and no trend analysis called
NoRet == [fn |-> "none"]
PureIdle ==
    /\ arg = <<>>
    /\ ret = NoRet

\* the store before its first use: no file, no data directory
StoreInit ==
    /\ file = AbsentFile
    /\ today = 0
    /\ last = NoOp
    /\ latest = [d \in ClockDays |-> None]

\* the holdings tables vary under one pair of sheets, or the sheets vary under one
\* pair of tables, or the share counts of two instruments vary on both sides
DiffInit ==
    /\ \/ /\ df_new \in NewTables(MaxRows)
          /\ df_old \in OldTables(MaxRows - Len(df_new.rows))
          /\ df_raw_new = FixedNewGrid
          /\ df_raw_old = FixedOldGrid
       \/ /\ df_new = SampleNew
          /\ df_old = SampleOld
          /\ df_raw_new \in NewGrids
          /\ df_raw_old \in OldGrids
       \/ /\ df_new \in PairedNew
          /\ df_old \in PairedOld
          /\ df_raw_new = FixedNewGrid
          /\ df_raw_old = FixedOldGrid
    /\ call = NoCall
    /\ result = NotCalled

Init == DiffInit /\ StoreInit /\ PureIdle

\* how a call is made: without price lookup, or with one and what the sources answer
PriceModes ==
    {[fetch_prices |-> FALSE, quote |-> [c \in PricedCodes |-> None]]} \cup
    {[fetch_prices |-> TRUE, quote |-> q] : q \in PriceFeeds}

\* compare_holdings(df_new, df_old, df_raw_new, df_raw_old, date_new, date_old, fetch_prices)
Compare ==
    /\ result = NotCalled
    /\ \E m \in PriceModes :
          /\ call' = [kind |-> "compare", fetch_prices |-> m.fetch_prices, quote |-> m.quote]
          /\ result' = compare_holdings(df_new, df_old, df_raw_new, df_raw_old,
                                        m.fetch_prices, m.quote)
    /\ df_new' = NormalizeCodes(df_new)
    /\ df_old' = NormalizeCodes(df_old)
    /\ UNCHANGED <<df_raw_new, df_raw_old>>
    /\ UNCHANGED storeVars
    /\ UNCHANGED pureVars

\* the newer disclosure diffed against itself: the same table and sheet on both sides
CompareSelf ==
    /\ result = NotCalled
    /\ \E m \in PriceModes :
          /\ call' = [kind |-> "self", fetch_prices |-> m.fetch_prices, quote |-> m.quote]
          /\ result' = compare_holdings(df_new, df_new, df_raw_new, df_raw_new,
                                        m.fetch_prices, m.quote)
    /\ df_new' = NormalizeCodes(df_new)
    /\ UNCHANGED <<df_old, df_raw_new, df_raw_old>>
    /\ UNCHANGED storeVars
    /\ UNCHANGED pureVars

Next == Compare \/ CompareSelf

Spec == Init /\ [][Next]_vars

\* the store alone, under one fixed diff input
DiffIdle ==
    /\ df_new = SampleNew
    /\ df_old = SampleOld
    /\ df_raw_new = FixedNewGrid
    /\ df_raw_old = FixedOldGrid
    /\ call = NoCall
    /\ result = NotCalled

InitStore == DiffIdle /\ StoreInit /\ PureIdle

\* the store on a file system that works
NextStore ==
    \/ \E df \in RankingTables : Upsert(df, TRUE, TRUE, "ok")
    \/ Load(TRUE, TRUE)
    \/ Tick

SpecStore == InitStore /\ [][NextStore]_vars

\* the store on a file system that may fail any call
NextStoreFaults ==
    \/ \E df \in RankingTables, mkdir_ok \in BOOLEAN, read_ok \in BOOLEAN, write \in WriteOutcomes :
          Upsert(df, mkdir_ok, read_ok, write)
    \/ \E mkdir_ok \in BOOLEAN, read_ok \in BOOLEAN : Load(mkdir_ok, read_ok)
    \/ Tick

SpecStoreFaults == InitStore /\ [][NextStoreFaults]_vars

\* the sheet parsers, each called once on a cell or on a sheet
InitParse ==
    /\ DiffIdle
    /\ StoreInit
    /\ arg \in PercentCells \cup Sheets \cup ValueSheets \cup WeightSheets
    /\ ret = NoRet

ParsePercentCell ==
    /\ ret = NoRet
    /\ arg.kind \in {"numeral", "float", "text"}
    /\ ret' = [fn |-> "parse_percent_cell", value |-> parse_percent_cell(CellText(arg))]
    /\ UNCHANGED <<arg, diffVars, storeVars>>

FindStockHeaderIndex ==
    /\ ret = NoRet
    /\ arg.kind = "sheet"
    /\ ret' = [fn |-> "find_stock_header_index", value |-> find_stock_header_index(arg.rows)]
    /\ UNCHANGED <<arg, diffVars, storeVars>>

ParseHoldingsExcel ==
    /\ ret = NoRet
    /\ arg.kind = "sheet"
    /\ ret' = [fn |-> "parse_holdings_excel", value |-> parse_holdings_excel(arg.rows)]
    /\ UNCHANGED <<arg, diffVars, storeVars>>

\* extract_value_by_keyword(df_raw, ["XianJin"])
ExtractValueByKeyword ==
    /\ ret = NoRet
    /\ arg.kind = "values"
    /\ ret' = [fn |-> "extract_value_by_keyword",
               value |-> extract_value_by_keyword(arg.rows, {"XianJin"})]
    /\ UNCHANGED <<arg, diffVars, storeVars>>

ExtractCashWeight ==
    /\ ret = NoRet
    /\ arg.kind = "weights"
    /\ ret' = [fn |-> "extract_cash_weight", value |-> extract_cash_weight(arg.rows)]
    /\ UNCHANGED <<arg, diffVars, storeVars>>

NextParse ==
    \/ ParsePercentCell
    \/ FindStockHeaderIndex
    \/ ParseHoldingsExcel
    \/ ExtractValueByKeyword
    \/ ExtractCashWeight

SpecParse == InitParse /\ [][NextParse]_vars

\* the trend analyses, each called once on a history
InitTrend ==
    /\ DiffIdle
    /\ StoreInit
    /\ arg \in HistoricalData
    /\ ret = NoRet

AnalyzeCashLevels ==
    /\ ret = NoRet
    /\ ret' = [fn |-> "analyze_cash_levels", value |-> analyze_cash_levels(arg)]
    /\ UNCHANGED <<arg, diffVars, storeVars>>

AnalyzeHoldingPeriods ==
    /\ ret = NoRet
    /\ ret' = [fn |-> "analyze_holding_periods", value |-> analyze_holding_periods(arg)]
    /\ UNCHANGED <<arg, diffVars, storeVars>>

AnalyzeWeightSignals ==
    /\ ret = NoRet
    /\ \E order \in Orders(AllCodes(arg)) :
          ret' = [fn |-> "analyze_weight_signals", value |-> analyze_weight_signals(arg, order)]
    /\ UNCHANGED <<arg, diffVars, storeVars>>

NextTrend == AnalyzeCashLevels \/ AnalyzeHoldingPeriods \/ AnalyzeWeightSignals

SpecTrend == InitTrend /\ [][NextTrend]_vars

\* the report over a run of disclosures
InitReport ==
    /\ DiffIdle
    /\ StoreInit
    /\ arg \in Disclosures
    /\ ret = NoRet

GenerateAnalysisReport ==
    /\ ret = NoRet
    /\ ret' = [fn |-> "generate_analysis_report", value |-> generate_analysis_report(arg)]
    /\ UNCHANGED <<arg, diffVars, storeVars>>

NextReport == GenerateAnalysisReport

SpecReport == InitReport /\ [][NextReport]_vars

\* ===================================================================== claims

Returned == result.status = "returned"
All == result.all_holdings
Entries == {All[i] : i \in 1..Len(All)}

Count(seq, x) == Cardinality({i \in 1..Len(seq) : seq[i] = x})

\* the share counts a side's table lists for a code, an absent side counting as 0
SideShares(df, code) ==
    IF RowsOf(df.rows, code) = <<>> THEN {0}
    ELSE {to_numeric_int(RowsOf(df.rows, code)[i].shares) : i \in 1..Len(RowsOf(df.rows, code))}

\* the table on the old side of the last call
OldSide == IF call.kind = "self" THEN df_new ELSE df_old
OldSheet == IF call.kind = "self" THEN df_raw_new ELSE df_raw_old

\* the classification the specification states
SpecType(old, new) ==
    IF old = 0 /\ new > 0 THEN "NEW"
    ELSE IF old > 0 /\ new = 0 THEN "EXIT"
    ELSE IF new > old THEN "INCREASE"
    ELSE IF new < old THEN "DECREASE"
    ELSE "UNCHANGED"

\* C1: every entry of a diff is classified from its (old_shares, new_shares) pair as
\* NEW / EXIT / INCREASE / DECREASE / UNCHANGED by the stated rule, where the pair is
\* the share counts the two tables list for the instrument and an absent side is 0;
\* so EXIT needs a strictly positive prior count and 0-versus-absent is UNCHANGED.
C1_Classification ==
    Returned =>
        \A h \in Entries :
            /\ h.shares_old \in SideShares(OldSide, h.code)
            /\ h.shares_new \in SideShares(df_new, h.code)
            /\ h.change_type = SpecType(h.shares_old, h.shares_new)
            /\ (h.change_type = "EXIT" => h.shares_old > 0)

\* a diff in which an instrument listed with 0 shares in the new table and absent from
\* the old one came out UNCHANGED
C1_Witness ==
    /\ Returned
    /\ call.kind = "compare"
    /\ \E h \in Entries :
          /\ RowsOf(df_old.rows, h.code) = <<>>
          /\ \E i \in 1..Len(df_new.rows) :
                df_new.rows[i].code = h.code /\ df_new.rows[i].shares = <<"0">>
          /\ h.change_type = "UNCHANGED"

GroupNames == {"new_positions", "increased", "decreased", "exited", "unchanged"}

GroupOfType(t) ==
    CASE t = "NEW" -> "new_positions" [] t = "INCREASE" -> "increased"
      [] t = "DECREASE" -> "decreased" [] t = "EXIT" -> "exited"
      [] t = "UNCHANGED" -> "unchanged"

ResultGroup(g) ==
    CASE g = "new_positions" -> result.new_positions [] g = "increased" -> result.increased
      [] g = "decreased" -> result.decreased [] g = "exited" -> result.exited
      [] g = "unchanged" -> result.unchanged

\* C2: the five groups of a ComparisonResult partition all_holdings: each entry occurs
\* in the group of its change_type as often as in all_holdings and in no other group,
\* the groups hold nothing else, and their sizes sum to len(all_holdings).
C2_Partition ==
    Returned =>
        /\ Len(result.new_positions) + Len(result.increased) + Len(result.decreased)
             + Len(result.exited) + Len(result.unchanged) = Len(All)
        /\ \A h \in Entries : \A g \in GroupNames :
              Count(ResultGroup(g), h) = IF g = GroupOfType(h.change_type) THEN Count(All, h) ELSE 0
        /\ \A g \in GroupNames : \A i \in 1..Len(ResultGroup(g)) : ResultGroup(g)[i] \in Entries

\* a diff whose entries fall into at least three different groups, one of them exited
C2_Witness ==
    /\ Returned
    /\ Cardinality({g \in GroupNames : ResultGroup(g) # <<>>}) >= 3
    /\ result.exited # <<>>

UniqueCodes(df) ==
    \A i, j \in 1..Len(df.rows) : df.rows[i].code = df.rows[j].code => i = j

ZeroOrNull(d) == d = None \/ d = Some(0)

SummaryDeltas(sm) == {sm.units_change, sm.cash_change, sm.cash_weight_change, sm.nav_change}

\* C3: a snapshot (a table listing each instrument once) diffed against itself yields
\* only UNCHANGED entries, and every summary delta is 0 or null.
C3_SelfDiff ==
    (Returned /\ call.kind = "self" /\ UniqueCodes(df_new)) =>
        /\ result.new_positions = <<>>
        /\ result.increased = <<>>
        /\ result.decreased = <<>>
        /\ result.exited = <<>>
        /\ \A h \in Entries : h.change_type = "UNCHANGED"
        /\ result.unchanged = All
        /\ \A d \in SummaryDeltas(result.summary) : ZeroOrNull(d)

\* a self-diff of a two-instrument table holding a positive position, whose sheet gives
\* a zero delta and a null one
C3_Witness ==
    /\ Returned
    /\ call.kind = "self"
    /\ UniqueCodes(df_new)
    /\ \E h \in Entries : h.shares_new > 0
    /\ Some(0) \in SummaryDeltas(result.summary)

\* C4: change_pct is (new-old)/old*100 when old_shares > 0; it is exactly 100 for a NEW
\* position (old 0, new > 0), whose shares_change is new_shares; it is 0 when both are 0.
C4_ChangePct ==
    Returned =>
        \A h \in Entries :
            /\ h.change_pct.d > 0
            /\ (h.shares_old > 0 =>
                   h.change_pct.n * h.shares_old = (h.shares_new - h.shares_old) * 100 * h.change_pct.d)
            /\ (h.shares_old = 0 /\ h.shares_new > 0 =>
                   /\ h.change_pct = [n |-> 100, d |-> 1]
                   /\ h.change_type = "NEW"
                   /\ h.shares_change = h.shares_new)
            /\ (h.shares_old = 0 /\ h.shares_new = 0 => h.change_pct = [n |-> 0, d |-> 1])

\* a diff with a NEW entry at 100%, an entry with both counts 0 and an entry with a
\* nonzero percentage over a positive prior count
C4_Witness ==
    /\ Returned
    /\ \E h \in Entries : h.shares_old = 0 /\ h.shares_new > 0 /\ h.change_pct.n = 100
    /\ \E h \in Entries : h.shares_old = 0 /\ h.shares_new = 0
    /\ \E h \in Entries : h.shares_old > 0 /\ h.change_pct.n # 0

\* the price the lookup supplied for an instrument in the last call
Supplied(code) ==
    IF call.fetch_prices /\ code \in PricedCodes THEN call.quote[code] ELSE None

\* C5: value_change is shares_change * price exactly when the price lookup supplied a
\* price for the instrument, and null otherwise.
C5_ValueDelta ==
    Returned =>
        \A h \in Entries :
            IF IsNone(Supplied(h.code))
            THEN h.value_change = None
            ELSE h.value_change = Some(h.shares_change * Val(Supplied(h.code)))

\* C6: a summary delta is null whenever the new-side or the old-side value of its
\* metric is null.
C6_DeltaNullOnMissing ==
    Returned =>
        LET sm == result.summary
            old == OldSheet
        IN /\ (IsNone(sm.units_outstanding) \/ IsNone(extract_value_by_keyword(old, UnitsKeywords))
                 => IsNone(sm.units_change))
           /\ (IsNone(sm.cash_amount) \/ IsNone(extract_value_by_keyword(old, {"XianJin"}))
                 => IsNone(sm.cash_change))
           /\ (IsNone(sm.cash_weight) \/ IsNone(extract_cash_weight(old))
                 => IsNone(sm.cash_weight_change))
           /\ (IsNone(sm.nav_per_unit) \/ IsNone(extract_nav_per_unit(old))
                 => IsNone(sm.nav_change))

\* a diff whose sheets give the units on the new side only, the NAV on the old side
\* only, and a cash weight on both sides with a numeric delta
C6_Witness ==
    /\ Returned
    /\ call.kind = "compare"
    /\ ~IsNone(result.summary.units_outstanding)
    /\ IsNone(extract_value_by_keyword(df_raw_old, UnitsKeywords))
    /\ IsNone(result.summary.nav_per_unit)
    /\ ~IsNone(extract_nav_per_unit(df_raw_old))
    /\ ~IsNone(result.summary.cash_weight_change)

Stored == file.hist

\* C7: upserting, for a date whose latest upsert had the same content, the same content
\* again leaves the stored history exactly as it was: same entries, same order.
C7_UpsertIdempotent ==
    [][(/\ last'.op = "upsert"
        /\ last'.date = today
        /\ latest[today] = Some(last'.content))
       => file' = file]_vars

\* an upsert has repeated its date's content while another date's entry is stored
C7_Witness ==
    /\ last.op = "upsert"
    /\ last.reingest = "same"
    /\ Len(Stored) >= 2
    /\ Stored[1].date = last.date

\* C8: the stored history has at most one entry per date, and each entry holds the
\* content of the most recent upsert for its date.
C8_OneEntryPerDate ==
    /\ \A i, j \in 1..Len(Stored) : Stored[i].date = Stored[j].date => i = j
    /\ \A i \in 1..Len(Stored) : latest[Stored[i].date] = Some(Stored[i].rankings)

\* a date has been re-ingested with other content while another date's entry is stored
C8_Witness ==
    /\ last.op = "upsert"
    /\ last.reingest = "changed"
    /\ Len(Stored) >= 2
    /\ \E i \in 1..Len(Stored) : Stored[i].date = last.date /\ Stored[i].rankings = last.content

Ascending(h) == \A i, j \in 1..Len(h) : i < j => h[i].date <= h[j].date
StrictlyDescending(h) == \A i, j \in 1..Len(h) : i < j => h[i].date > h[j].date

\* C9 as stated: the list load_ranking_history returns is ordered by date ascending,
\* oldest entry first.
C9_OldestFirst == last.op = "load" => Ascending(last.ret)

\* C9 as amended: the list load_ranking_history returns, and the list stored, is
\* ordered by date descending, newest entry first.
C9_NewestFirst ==
    /\ last.op = "load" => StrictlyDescending(last.ret)
    /\ StrictlyDescending(Stored)

\* a load has returned a history of two dates
C9_Witness ==
    /\ last.op = "load"
    /\ Len(last.ret) >= 2

\* C10: an upsert whose write of the history fails does not return normally.
C10_WriteFailureSurfaced ==
    (last.op = "upsert" /\ last.write \in {"open_fails", "dump_fails"}) => last.raised

\* ----------------------------------------------------------- trend analyses

Called(fn) == ret.fn = fn
Dates == arg.dates

\* C11: on a history of exactly one snapshot each of the three analyses returns an
\* insufficient-data result and no computed values: the cash analysis the trend
\* "unknown" without alert, the holding-period and the weight-signal analysis nothing;
\* on exactly two snapshots the weight-signal analysis returns one signal for every
\* instrument of those two snapshots.
C11_InsufficientData ==
    /\ (Called("analyze_cash_levels") /\ Len(Dates) = 1) =>
           ret.value.trend = "unknown" /\ ret.value.alert = None
    /\ (Called("analyze_holding_periods") /\ Len(Dates) = 1) => ret.value = <<>>
    /\ (Called("analyze_weight_signals") /\ Len(Dates) = 1) => ret.value = <<>>
    /\ (Called("analyze_weight_signals") /\ Len(Dates) = 2) =>
           /\ {ret.value[i].code : i \in 1..Len(ret.value)} = AllCodes(arg)
           /\ Len(ret.value) = Cardinality(AllCodes(arg))

\* the cash levels of the history, oldest first
Levels == [i \in 1..Len(Dates) |-> arg.summaries[Dates[i]].cash_weight]

RECURSIVE Total(_)
Total(levels) == IF levels = <<>> THEN 0 ELSE Head(levels) + Total(Tail(levels))

\* the latest level is more than 1.5 times the average of all levels
Jumps(levels) == 2 * Len(levels) * levels[Len(levels)] > 3 * Total(levels)

\* C12: on at least two cash records the alert is a warning when the latest level is
\* above 5%, an info when it is below 1%, a warning when it is otherwise above 1.5 times
\* the average, and absent otherwise; the levels 0.8, 0.9, 6.2 give a warning.
C12_CashAlert ==
    (Called("analyze_cash_levels") /\ Len(Dates) >= 2) =>
        LET c == Levels[Len(Levels)]
            alert == ret.value.alert
        IN /\ (c > 5000 => alert # None /\ Val(alert).level = "warning")
           /\ (c < 1000 => alert # None /\ Val(alert).level = "info")
           /\ (c >= 1000 /\ c <= 5000 /\ Jumps(Levels) => alert # None /\ Val(alert).level = "warning")
           /\ (c >= 1000 /\ c <= 5000 /\ ~Jumps(Levels) => alert = None)
           /\ (Levels = <<800, 900, 6200>> => alert # None /\ Val(alert).level = "warning")

\* the analysis of the levels 0.8, 0.9, 6.2 has raised its warning
C12_Witness ==
    /\ Called("analyze_cash_levels")
    /\ Levels = <<800, 900, 6200>>
    /\ ret.value.alert # None
    /\ Val(ret.value.alert).level = "warning"

\* the holdings lists of the two latest dates
CurrentList == arg.holdings[Dates[Len(Dates)]]
PreviousList == arg.holdings[Dates[Len(Dates) - 1]]

DistinctCodes(l) == \A i, j \in 1..Len(l) : l[i].code = l[j].code => i = j

\* the same holdings in every order of the rows
Reordered(l) == {[i \in 1..Len(l) |-> l[p[i]]] : p \in Orders(1..Len(l))}

\* the history with the two latest lists replaced
WithLists(hd, prev, cur) ==
    [hd EXCEPT !.holdings = [d \in DOMAIN hd.holdings |->
        IF d = hd.dates[Len(hd.dates)] THEN cur
        ELSE IF d = hd.dates[Len(hd.dates) - 1] THEN prev
        ELSE hd.holdings[d]]]

\* the ranks a result assigns, per instrument
RanksOf(signals) ==
    {<<signals[i].code, signals[i].weight_rank, signals[i].prev_rank, signals[i].rank_change>> :
        i \in 1..Len(signals)}

\* C13: the ranks and rank changes of the weight signals are the same for every order
\* in which the same holdings (each instrument once per date) are listed.
C13_RankOrderIndependent ==
    (Called("analyze_weight_signals") /\ Len(Dates) >= 2
        /\ DistinctCodes(CurrentList) /\ DistinctCodes(PreviousList)) =>
        \A prev \in Reordered(PreviousList), cur \in Reordered(CurrentList) :
            \A order \in Orders(AllCodes(arg)) :
                RanksOf(analyze_weight_signals(WithLists(arg, prev, cur), order)) = RanksOf(ret.value)

\* the signals of instruments held on both dates
Held == {ret.value[i] : i \in {k \in 1..Len(ret.value) :
            /\ \E j \in 1..Len(CurrentList) : CurrentList[j].code = ret.value[k].code
            /\ \E j \in 1..Len(PreviousList) : PreviousList[j].code = ret.value[k].code}}

\* the weight the (deduplicated) list of a date gives an instrument
WeightIn(l, code) == Val(Lookup(DictValues(l), code)).weight

\* C14: for an instrument in both of the two latest snapshots weight_change is
\* current weight minus previous weight and rank_change is prev_rank minus
\* weight_rank, the ranks following the weights (a greater weight never ranks after a
\* smaller one), so that a move to a better rank gives a positive rank_change.
C14_Deltas ==
    (Called("analyze_weight_signals") /\ Len(Dates) >= 2) =>
        /\ \A s \in Held :
              /\ s.current_weight = WeightIn(CurrentList, s.code)
              /\ s.prev_weight = WeightIn(PreviousList, s.code)
              /\ s.weight_change = s.current_weight - s.prev_weight
              /\ s.rank_change = s.prev_rank - s.weight_rank
              /\ (s.weight_rank < s.prev_rank => s.rank_change > 0)
              /\ s.weight_rank \in 1..Len(CurrentList)
              /\ s.prev_rank \in 1..Len(PreviousList)
        /\ \A s, t \in Held :
              /\ (s.current_weight > t.current_weight => s.weight_rank < t.weight_rank)
              /\ (s.prev_weight > t.prev_weight => s.prev_rank < t.prev_rank)

\* an instrument has moved from rank 2 to rank 1 and reports a rank change of +1
C14_Witness ==
    /\ Called("analyze_weight_signals")
    /\ Len(Dates) >= 2
    /\ \E s \in Held : s.prev_rank = 2 /\ s.weight_rank = 1 /\ s.rank_change = 1
                       /\ s.weight_change > 0

\* the label the specification states for an instrument held on both dates
SpecHeldLabel(weight_delta, current_weight) ==
    IF weight_delta > 1000 /\ current_weight > 3000 THEN <<"GaoXinXinJiaMa", "Gao">>
    ELSE IF weight_delta > 500 THEN <<"ChiXuKanHao", "Zhong">>
    ELSE IF weight_delta < -1000 THEN <<"XinXinXiaJiang", "Di">>
    ELSE IF weight_delta < -300 THEN <<"XiaoFuJianMa", "Zhong">>
    ELSE <<"WeiChi", "Zhong">>

InList(l, code) == \E j \in 1..Len(l) : l[j].code = code

\* C15: every weight signal carries the label of the first matching rule: held on both
\* dates by the thresholds on weight_change and current weight; only on the newer date
\* new entry (high above 2%, else medium); only on the older date fully exited (low).
C15_Labels ==
    (Called("analyze_weight_signals") /\ Len(Dates) >= 2) =>
        \A i \in 1..Len(ret.value) :
            LET s == ret.value[i]
                label == <<s.signal, s.conviction_level>>
            IN IF InList(CurrentList, s.code) /\ InList(PreviousList, s.code)
               THEN label = SpecHeldLabel(WeightIn(CurrentList, s.code) - WeightIn(PreviousList, s.code),
                                          WeightIn(CurrentList, s.code))
               ELSE IF InList(CurrentList, s.code)
               THEN label = <<"XinJinChang",
                              IF WeightIn(CurrentList, s.code) > 2000 THEN "Gao" ELSE "Zhong">>
               ELSE label = <<"YiChuQing", "Di">>

\* a result with a high-conviction add beside a conviction drop
C15_Witness ==
    /\ Called("analyze_weight_signals")
    /\ \E i \in 1..Len(ret.value) : ret.value[i].signal = "GaoXinXinJiaMa"
    /\ \E i \in 1..Len(ret.value) : ret.value[i].signal = "XinXinXiaJiang"

\* the number a cell holds in units of 10^-5, None for a cell that holds none
CellNumber(cell) ==
    CASE cell.kind = "numeral" ->
             LET magnitude == DecVal(Remove(cell.ip, {","})) * 100000
                              + (IF cell.fp = <<>> THEN 0
                                 ELSE IF Len(cell.fp) = 1 THEN DecVal(cell.fp) * 10000
                                 ELSE DecVal(cell.fp) * 100)
             IN Some(IF cell.neg THEN 0 - magnitude ELSE magnitude)
      [] cell.kind = "float" -> Some(DigitVal(cell.mantissa))
      [] cell.kind = "text" -> None

HasPercentSign(cell) == cell.kind = "numeral" /\ cell.suffix # <<>>

\* C16: parse_percent_cell returns a percentage: the number of a cell with a percent
\* sign as it is, the number of a cell without one times 100 when its magnitude is at
\* most 1 and as it is otherwise; so 0.035 and 3.5% both give 3.5. A blank, NaN or
\* unparsable cell gives None.
C16_PercentCell ==
    Called("parse_percent_cell") =>
        /\ IsNone(CellNumber(arg)) => ret.value = None
        /\ ~IsNone(CellNumber(arg)) =>
              /\ ret.value # None
              /\ IF ~HasPercentSign(arg) /\ Abs(Val(CellNumber(arg))) <= 100000
                 THEN Val(ret.value) = Val(CellNumber(arg))
                 ELSE Val(ret.value) * 100 = Val(CellNumber(arg))
        /\ CellText(arg) \in {<<"0", ".", "0", "3", "5">>, <<"3", ".", "5", "%">>}
              => ret.value = Some(3500)

\* the rows of the sheet in which each of the code, name and share-count labels
\* stands in some cell
LabelledRows ==
    {i \in 1..Len(arg.rows) :
        \A label \in {"GuPiaoDaiHao", "GuPiaoMingCheng", "GuShu"} :
            \E j \in 1..Len(arg.rows[i]) : \E k \in 1..Len(arg.rows[i][j]) :
                arg.rows[i][j][k] = label}

\* C17: find_stock_header_index returns the index of the first row in which every
\* required header keyword occurs in at least one cell, and None when the sheet has
\* no such row; parse_holdings_excel raises exactly when there is no such row.
C17_HeaderRow ==
    /\ Called("find_stock_header_index") =>
          /\ LabelledRows = {} => ret.value = None
          /\ LabelledRows # {} =>
                /\ ret.value # None
                /\ Val(ret.value) + 1 \in LabelledRows
                /\ \A i \in LabelledRows : Val(ret.value) + 1 <= i
    /\ Called("parse_holdings_excel") =>
          (ret.value.status = "raised" <=> LabelledRows = {})

\* the header is the second row, below a row with the share-count label and without
\* the name label, and above a second header row
C17_Witness ==
    /\ Called("find_stock_header_index")
    /\ LabelledRows = {2, 3}
    /\ \E j \in 1..Len(arg.rows[1]) : arg.rows[1][j] = <<"GuShu">>
    /\ ret.value = Some(1)

\* a share cell that is no integer numeral
UnparsableShares(cell) == ~IsDigits(Remove(cell, {",", "-"}))

\* C18: compare_holdings never raises for inconsistent row data or missing prices:
\* whatever the share and weight cells hold and whatever the price lookup answers, it
\* returns a ComparisonResult in which every instrument of either table is diffed and
\* an unparsable share count counts as 0.
C18_NeverRaises ==
    call.kind # "none" =>
        /\ Returned
        /\ \A df \in {df_new, OldSide} : \A i \in 1..Len(df.rows) :
              \E h \in Entries : h.code = df.rows[i].code
        /\ \A h \in Entries :
              (/\ RowsOf(df_new.rows, h.code) # <<>>
               /\ \A i \in 1..Len(df_new.rows) :
                     df_new.rows[i].code = h.code => UnparsableShares(df_new.rows[i].shares))
              => h.shares_new = 0

\* the snapshots of the file that an upsert on this day has to leave in place
StoredSet == {Stored[i] : i \in 1..Len(Stored)}
Retained ==
    {s \in StoredSet : s.date # today /\ s.date >= today - RetentionDays}

\* C19: an upsert whose write succeeds, whether or not the read inside it or a load
\* before it failed, leaves every stored snapshot of another date inside the retention
\* window in the store.
C19_OthersSurvive ==
    [][(last'.op = "upsert" /\ last'.write = "ok") =>
          \A s \in Retained : \E i \in 1..Len(file'.hist) : file'.hist[i] = s]_vars

\* C20: right after an upsert no stored snapshot is dated before the cutoff, the
\* current date minus 90 days, and a load returns no snapshot dated before it.
C20_BoundedRetention ==
    /\ (last.op = "upsert" /\ last.date = today) =>
          \A s \in StoredSet : s.date >= today - RetentionDays
    /\ (last.op = "load" /\ last.date = today /\ ~last.raised) =>
          \A i \in 1..Len(last.ret) : last.ret[i].date >= today - RetentionDays

\* position of an entry in all_holdings, the order the merged rows were walked in
WalkedAt(h) == CHOOSE i \in 1..Len(All) : All[i] = h

\* C21: in a ComparisonResult new_positions is sorted by weight descending, increased
\* by change_pct descending, decreased by change_pct ascending and exited by prior
\* share count descending.
C21_SortOrder ==
    Returned =>
        /\ \A i, j \in 1..Len(result.new_positions) :
              i < j => result.new_positions[i].weight >= result.new_positions[j].weight
        /\ \A i, j \in 1..Len(result.increased) :
              i < j => ~FracLess(result.increased[i].change_pct, result.increased[j].change_pct)
        /\ \A i, j \in 1..Len(result.decreased) :
              i < j => ~FracLess(result.decreased[j].change_pct, result.decreased[i].change_pct)
        /\ \A i, j \in 1..Len(result.exited) :
              i < j => result.exited[i].shares_old >= result.exited[j].shares_old

\* two cuts of different depth, the deeper one walked last and listed first
C21_Witness ==
    /\ Returned
    /\ Len(result.decreased) = 2
    /\ FracLess(result.decreased[1].change_pct, result.decreased[2].change_pct)
    /\ WalkedAt(result.decreased[1]) > WalkedAt(result.decreased[2])

\* C22: compare_holdings is pure: a call leaves the holdings tables and the raw
\* sheets it was given exactly as they were.
C22_InputsUnchanged ==
    [][/\ df_new' = df_new
       /\ df_old' = df_old
       /\ df_raw_new' = df_raw_new
       /\ df_raw_old' = df_raw_old]_vars

\* C23: when the cash weight of the latest disclosure could not be extracted, the
\* cash analysis of the report does not treat it as a level of 0: it reports neither a
\* falling trend nor the near-zero alert.
C23_MissingCashPropagates ==
    (Called("generate_analysis_report") /\ Len(arg) >= 2 /\ arg[Len(arg)] = None) =>
        /\ ret.value.cash_analysis.trend # "decreasing"
        /\ ret.value.cash_analysis.alert # Some([level |-> "info", about |-> "low"])

\* the latest cash level minus the one before
LastMove == Levels[Len(Levels)] - Levels[Len(Levels) - 1]

SeenOn(code) ==
    {d \in {Dates[i] : i \in 1..Len(Dates)} :
        \E j \in 1..Len(arg.holdings[d]) : arg.holdings[d][j].code = code}
SeenCodes == {code \in TrendCodes : SeenOn(code) # {}}

Earliest(S) == CHOOSE d \in S : \A e \in S : d <= e
Latest(S) == CHOOSE d \in S : \A e \in S : d >= e

\* the results of analyze_holding_periods for one instrument
ResultsFor(code) == {i \in 1..Len(ret.value) : ret.value[i].code = code}

Observations(code) ==
    LET on == SeenOn(code)
        nth(k) == CHOOSE d \in on : Cardinality({e \in on : e < d}) = k - 1
        at(d) == arg.holdings[d][CHOOSE j \in 1..Len(arg.holdings[d]) : arg.holdings[d][j].code = code]
    IN [k \in 1..Cardinality(on) |-> at(nth(k)).weight]

OncePerDate ==
    \A d \in DOMAIN arg.holdings : DistinctCodes(arg.holdings[d])

\* C26: weight_trend is "increasing" when the mean of the latest two weights of an
\* instrument is more than 20% above the mean of its earliest two, "decreasing" when
\* it is more than 20% below, "stable" otherwise, and always "stable" on one or two
\* observations.
C26_WeightTrend ==
    (Called("analyze_holding_periods") /\ OncePerDate) =>
        \A i \in 1..Len(ret.value) :
            LET w == Observations(ret.value[i].code)
                n == Len(w)
            IN ret.value[i].weight_trend =
                  IF n <= 2 THEN "stable"
                  ELSE IF 5 * (w[n - 1] + w[n]) > 6 * (w[1] + w[2]) THEN "increasing"
                  ELSE IF 5 * (w[n - 1] + w[n]) < 4 * (w[1] + w[2]) THEN "decreasing"
                  ELSE "stable"

\* three observations whose latest mean is exactly 20% above the earliest mean: stable
C26_Witness ==
    /\ Called("analyze_holding_periods")
    /\ OncePerDate
    /\ \E i \in 1..Len(ret.value) :
          /\ Observations(ret.value[i].code) = <<1000, 4000, 2000>>
          /\ ret.value[i].weight_trend = "stable"

\* the number a cell of a value sheet shows, in thousandths: the 4 after the label,
\* the two digits of a value cell, nothing in a bare label or a blank
Shown(cell) ==
    IF cell = <<"XianJin", ":", "4">> THEN Some(4000)
    ELSE IF Len(cell) = 2 /\ cell[1] \in Digits /\ cell[2] \in Digits
    THEN Some(1000 * (10 * DigitVal(cell[1]) + DigitVal(cell[2])))
    ELSE None

IsLabel(cell) == cell # <<>> /\ cell[1] = "XianJin"

\* what the fallback order reads at the label cell (i, j) of the sheet
ReadAt(i, j) ==
    LET g == arg.rows
        right(d) == IF j + d <= 5 THEN Shown(g[i][j + d]) ELSE None
        below == IF i = 1 THEN Shown(g[2][j]) ELSE None
    IN IF Shown(g[i][j]) # None THEN Shown(g[i][j])
       ELSE IF right(1) # None THEN right(1)
       ELSE IF right(2) # None THEN right(2)
       ELSE IF right(3) # None THEN right(3)
       ELSE below

\* the label cells from which a value can be read, as <<row, column>>
Yielding ==
    {c \in (1..2) \X (1..5) : IsLabel(arg.rows[c[1]][c[2]]) /\ ReadAt(c[1], c[2]) # None}

\* C27: extract_value_by_keyword returns, for the first label cell in reading order
\* from which a value can be read, the number in the cell itself, else the first number
\* among the three cells to its right, else the number below it; label cells that
\* yield nothing are passed over, and the result is None when no label cell yields.
C27_FallbackOrder ==
    Called("extract_value_by_keyword") =>
        IF Yielding = {} THEN ret.value = None
        ELSE LET first == CHOOSE c \in Yielding :
                             \A e \in Yielding : c[1] < e[1] \/ (c[1] = e[1] /\ c[2] <= e[2])
             IN ret.value = ReadAt(first[1], first[2])

\* the label of the first row has nothing beside it within three cells and a second
\* label below it, whose right neighbour is the value returned
C27_Witness ==
    /\ Called("extract_value_by_keyword")
    /\ arg.rows[1] = <<<<"XianJin">>, NaNCell, NaNCell, NaNCell, NumberCell(1, 5)>>
    /\ arg.rows[2][1] = <<"XianJin">>
    /\ ret.value = Some(22000)

\* the cells of a weight sheet that hold a weight label or a cash label, and the
\* percentage a cell stands for, in thousandths
IsWeightLabel(cell) == cell \in {<<"ChiGuQuanZhong">>, <<"QuanZhong">>}
IsCashLabel(cell) == cell \in {<<"XianJin">>, <<"Cash">>}
PercentShown(cell) ==
    CASE cell = <<"3", ".", "5", "%">> -> Some(3500)
      [] cell = <<"4", ".", "5", "%">> -> Some(4500)
      [] cell = <<"0", ".", "0", "3", "5">> -> Some(3500)
      [] OTHER -> None

\* the rows with a weight label within the scanned first rows of the sheet
HeaderRows ==
    {i \in 1..Min(Len(arg.rows), HeaderScanRows) :
        \E j \in 1..2 : IsWeightLabel(arg.rows[i][j])}

\* the rows below row h with a cash label and a percentage in column c
CashRowsBelow(h, c) ==
    {i \in (h + 1)..Len(arg.rows) :
        /\ \E j \in 1..2 : IsCashLabel(arg.rows[i][j])
        /\ PercentShown(arg.rows[i][c]) # None}

\* C28: the cash weight is read in two phases: the first row with a weight label
\* fixes the weight column, and the value is the percentage in that column of the
\* first row strictly below it that has a cash label and a percentage there; None
\* when there is no header or no such row.
C28_CashWeight ==
    Called("extract_cash_weight") =>
        IF HeaderRows = {} THEN ret.value = None
        ELSE LET h == Least(HeaderRows)
                 c == Least({j \in 1..2 : IsWeightLabel(arg.rows[h][j])})
             IN IF CashRowsBelow(h, c) = {} THEN ret.value = None
                ELSE ret.value = PercentShown(arg.rows[Least(CashRowsBelow(h, c))][c])

\* new minus old when both values are present
Difference(new, old, delta) ==
    (~IsNone(new) /\ ~IsNone(old)) => delta = Some(Val(new) - Val(old))

\* C29: whenever the new-side and the old-side value of a summary metric are both
\* present, the summary delta is new minus old, a present value of 0 included.
C29_DeltaWhenPresent ==
    Returned =>
        /\ Difference(result.summary.units_outstanding,
                      extract_value_by_keyword(OldSheet, UnitsKeywords), result.summary.units_change)
        /\ Difference(result.summary.cash_amount,
                      extract_value_by_keyword(OldSheet, {"XianJin"}), result.summary.cash_change)
        /\ Difference(result.summary.cash_weight,
                      extract_cash_weight(OldSheet), result.summary.cash_weight_change)
        /\ Difference(result.summary.nav_per_unit,
                      extract_nav_per_unit(OldSheet), result.summary.nav_change)

\* the codes a list of holdings names
ListedCodes(l) == {l[i].code : i \in 1..Len(l)}

\* the weight a list gives an instrument, 0 for an instrument the list does not name
WeightOrZero(l, code) == IF InList(l, code) THEN WeightIn(l, code) ELSE 0

\* C30: analyze_weight_signals reads the two latest dates alone: its result holds
\* exactly one signal for every instrument of the union of those two dates' holdings,
\* none missing and none twice, none for an instrument of an older date only, each
\* with the weights of those two dates, and the signals stand in descending order of
\* the absolute weight_change.
C30_SignalPerInstrument ==
    (Called("analyze_weight_signals") /\ Len(Dates) >= 2) =>
        /\ {ret.value[i].code : i \in 1..Len(ret.value)} = ListedCodes(CurrentList) \cup ListedCodes(PreviousList)
        /\ \A i, j \in 1..Len(ret.value) : ret.value[i].code = ret.value[j].code => i = j
        /\ \A i \in 1..Len(ret.value) :
              /\ ret.value[i].current_weight = WeightOrZero(CurrentList, ret.value[i].code)
              /\ ret.value[i].prev_weight = WeightOrZero(PreviousList, ret.value[i].code)
        /\ \A i, j \in 1..Len(ret.value) :
              i < j => Abs(ret.value[i].weight_change) >= Abs(ret.value[j].weight_change)

\* on three dates an instrument held on the oldest date alone has no signal, while
\* the instrument of the two latest dates has one
C30_Witness ==
    /\ Called("analyze_weight_signals")
    /\ Len(Dates) = 3
    /\ InList(arg.holdings[Dates[1]], "2454")
    /\ ~InList(PreviousList, "2454") /\ ~InList(CurrentList, "2454")
    /\ InList(PreviousList, "2330") /\ InList(CurrentList, "2330")
    /\ Len(ret.value) = 1
    /\ ret.value[1].code = "2330"

====
